---- MODULE Spec2Model ----
(***************************************************************************)
(* Verification model of the attachment resolution and acquisition engine  *)
(* of the Passing batch collector: the RateLimiter (utils/rate), the       *)
(* Manifest ledger (utils/manifest), the case pipeline (pipeline/run), the *)
(* ManifestManager and the downloaders of the batch collector              *)
(* (lib/manifest, batch), the click resolution of utils/downloader with    *)
(* its OS pickup (utils/osDownloads), the run over a list of case URLs,    *)
(* the listeners around a click, and toDirectDownloadFromHref.             *)
(* Each component has its own specification; the variables of the other    *)
(* components stay at their initial value under it.                        *)
(***************************************************************************)
EXTENDS Integers, Sequences, FiniteSets, TLC

VARIABLES
    \* ---- RateLimiter (utils/rate) ----
    rl_concurrency,   \* constructor argument concurrency
    rl_minInterval,   \* 1000 / qps, in clock ticks
    rl_queue,         \* this.queue: ids of the tasks waiting, in add() order
    rl_running,       \* this.running
    rl_lastRequest,   \* this.lastRequest
    rl_now,           \* Date.now()
    rl_timers,        \* due times of the pending setTimeout(() => this.process())
    rl_ticks,         \* number of pending process.nextTick(() => this.process())
    rl_active,        \* ids of the tasks started and not yet finished
    rl_started,       \* history: <<id, start time>> of every task started, in order
    rl_added,         \* number of add() calls so far
    rl_addTimes,      \* history: the time of every add() call, in order
    rl_wait,          \* waitForCompletion(): "none", "polling", "returned" or
                      \* "returnedAfterPolling"
    \* ---- Manifest (utils/manifest, the version with kinds) ----
    requiredCodes,    \* the constructor's requiredCodes argument (an array)
    mf_attachments,   \* data.attachments
    mf_stats,         \* data.stats
    mf_missing,       \* data.missing
    \* ---- Manifest (utils/manifest, the earlier version without kinds) ----
    om_attachments,   \* data.attachments
    om_stats,         \* data.stats
    om_missing,       \* data.missing
    \* ---- processUrl of pipeline/run: one case ----
    pp_pc,            \* "open", "collect", "loop" or "done"
    pp_dryRun,        \* options.dryRun
    pp_cands,         \* filteredCandidates[0 .. seq-1]: the candidates processed so far
    pp_produced,      \* history: the number of entries added for each of them
    pp_failures,      \* history: whether processing each of them failed or threw
    pp_clicks,        \* history: what was done on the page for each of them
    pp_writes,        \* paths written into the case directory by acquisitions, in order
    pp_saved,         \* MANIFEST.json of the case: <<>> or <<the data saved>>
    pp_prior,         \* MANIFEST.json of the case when processUrl was called
    pp_result,        \* the JobResult returned: <<>> or <<result>>
    \* ---- BatchCollector.processUrl and its ManifestManager (batch, lib/manifest) ----
    bt_pc,            \* "start", "download" or "created"
    bt_dryRun,        \* config.dryRun of the run in progress
    bt_cands,         \* scanResult.candidates
    bt_downloads,     \* downloadResults
    bt_existing,      \* existingManifest: <<>> (null) or <<manifest>>
    bt_existingFiles, \* ManifestManager.existingFiles
    bt_disk,          \* the filenames of the files in the case's output directory
    bt_file,          \* MANIFEST.json of the case: <<>> or <<manifest>>
    bt_generated,     \* history: the filenames generateUniqueFilename returned in this run
    bt_merge,         \* history: <<>> or <<the operands and result of the last merge>>
    bt_runs,          \* number of processUrl calls so far
    bt_result,        \* what the last processUrl returned: <<>> or <<result>>
    \* ---- one call of Downloader.download or of FileDownloader.downloadFile ----
    dl_impl,          \* "Downloader" (utils/download) or "FileDownloader" (lib/downloader)
    dl_pc,            \* "idle", "loop" or "done"
    dl_retries,       \* options.retries, resp. this.maxRetries
    dl_attempt,       \* the loop variable attempt
    dl_lastError,     \* lastError: <<>> (null) or <<message>>
    dl_tried,         \* history: number of performDownload calls made
    dl_errors,        \* history: the messages of the failed attempts, in order
    dl_delays,        \* history: the delays waited, in order
    dl_written,       \* history: the responses whose bytes were written to a file
    dl_bodies,        \* history: the length of the body each attempt got, in order
    dl_result,        \* the DownloadResult returned: <<>> or <<result>>
    \* ---- one call of clickResolveAndSaveV2 (utils/downloader) ----
    ck_pc,            \* "idle", "download", "popup", "response", "href", "os", "returned"
    ck_href,          \* originalHref: "absolute" (an http URL) or "script"
    ck_osEnabled,     \* process.env.OS_DOWNLOADS_FALLBACK === 'true'
    ck_dl,            \* dl: TRUE when a download event was captured
    ck_dlFailed,      \* TRUE when dl.saveAs or dl.finished threw
    ck_pop,           \* pop: "none", "open" or "closed"
    ck_viewer,        \* TRUE when the popup's URL is a /pa/paFile.php viewer URL
    ck_clicks,        \* history: number of clicks issued on the candidate
    ck_fetches,       \* history: the direct HTTP fetches issued, with their transport
    ck_tried,         \* history: the strategies gone through, in order
    ck_saved,         \* history: the payloads written to a file, with the strategy
    ck_result,        \* the value returned: <<>> or <<"file">> or <<"null">>
    \* ---- waitAndPickupFromOS (utils/osDownloads), called by the OS fallback ----
    os_polls,         \* history: what each pass of the polling loop found, in order
    os_last,          \* last: <<>> (null) or <<file>>
    os_lastSize,      \* lastSize
    os_picked,        \* what it returned: <<>>, <<file>> or <<"null">>
    \* ---- one call of UrlResolver.resolveLinkBased (lib/resolver) ----
    rv_pc,            \* "idle" or "returned"
    rv_href,          \* candidate.href: "absolute" (an http URL) or "script"
    rv_clicks,        \* history: number of clicks issued on the candidate
    rv_listening,     \* history: TRUE when setupListeners() was called
    rv_signals,       \* history: what was captured after the click
    rv_page,          \* the page the click opened: "none", "open" or "closed"
    rv_result,        \* <<>> or <<the result: success, finalUrl, via>>
    \* ---- runPipeline (pipeline/run) or BatchCollector.run (batch): one run ----
    rn_impl,          \* "pipeline" or "batch"
    rn_urls,          \* urls: the list of case URLs
    rn_i,             \* number of URLs the loop has gone through
    rn_outcomes,      \* history: what processUrl did for each URL, in order
    rn_visited,       \* history: the URLs processUrl was called with, in order
    rn_result,        \* result: success, failed, totalFiles, missingCodes, failedUrls
    rn_done,          \* TRUE when the loop is over and the result returned
    \* ---- one click of a resolution routine and the listeners around it ----
    ls_routine,       \* "clickResolveAndSaveV2", "resolveLinkBased" or "resolveTargets"
    ls_pc,            \* "start", "awaiting", "clicking", "clicked", "failed" or "done"
    ls_clock,         \* time since the call, in units of 100 ms
    ls_clickStart,    \* the time at which click() was called
    ls_listeners,     \* per event listened for: its state and its deadline
    ls_atClick,       \* history: the state of every listener when the click was issued
    ls_fired,         \* history: the events the click fired at once
    ls_observed,      \* the events the routine got from its listeners
    \* ---- one use of toDirectDownloadFromHref (utils/downloader) ----
    hf_pc,            \* "in", "out" or "again"
    hf_href,          \* the href argument
    hf_base,          \* the directory of the baseUrl argument
    hf_out,           \* <<>> before the call, then <<"null">> or <<the URL returned>>
    hf_again,         \* the same for the call on the URL returned
    \* ---- Downloader.download calls sharing one output directory ----
    st_concurrency,   \* concurrency of the RateLimiter the calls go through
    st_dir,           \* the output directory: per name, <<>> or <<the file>>
    st_pc,            \* per call: where it stands
    st_attempt,       \* per call: the loop variable attempt
    st_buffer,        \* per call: buffer.length of the attempt in flight
    st_name,          \* per call: uniqueFilename of the attempt in flight
    st_result         \* per call: <<>>, then <<the DownloadResult>>

rateVars == <<rl_concurrency, rl_minInterval, rl_queue, rl_running, rl_lastRequest,
              rl_now, rl_timers, rl_ticks, rl_active, rl_started, rl_added,
              rl_addTimes, rl_wait>>

manifestVars == <<requiredCodes, mf_attachments, mf_stats, mf_missing>>

oldManifestVars == <<om_attachments, om_stats, om_missing>>

pipeVars == <<pp_pc, pp_dryRun, pp_cands, pp_produced, pp_failures, pp_clicks, pp_writes,
              pp_saved, pp_prior, pp_result>>

batchVars == <<bt_pc, bt_dryRun, bt_cands, bt_downloads, bt_existing, bt_existingFiles,
               bt_disk, bt_file, bt_generated, bt_merge, bt_runs, bt_result>>

downloadVars == <<dl_impl, dl_pc, dl_retries, dl_attempt, dl_lastError, dl_tried,
                  dl_errors, dl_delays, dl_written, dl_bodies, dl_result>>

clickVars == <<ck_pc, ck_href, ck_osEnabled, ck_dl, ck_dlFailed, ck_pop, ck_viewer,
               ck_clicks, ck_fetches, ck_tried, ck_saved, ck_result>>

pickupVars == <<os_polls, os_last, os_lastSize, os_picked>>

resolverVars == <<rv_pc, rv_href, rv_clicks, rv_listening, rv_signals, rv_page, rv_result>>

runVars == <<rn_impl, rn_urls, rn_i, rn_outcomes, rn_visited, rn_result, rn_done>>

listenVars == <<ls_routine, ls_pc, ls_clock, ls_clickStart, ls_listeners, ls_atClick,
                ls_fired, ls_observed>>

hrefVars == <<hf_pc, hf_href, hf_base, hf_out, hf_again>>

storeVars == <<st_concurrency, st_dir, st_pc, st_attempt, st_buffer, st_name,
               st_result>>

vars == <<rateVars, manifestVars, oldManifestVars, pipeVars, batchVars,
          downloadVars, clickVars, pickupVars, resolverVars, runVars,
          listenVars, hrefVars, storeVars>>

\* What the operations of one component leave alone.
outsideRate ==
    <<manifestVars, oldManifestVars, pipeVars, batchVars, downloadVars,
      clickVars, pickupVars, resolverVars, runVars, listenVars, hrefVars, storeVars>>
outsideManifest ==
    <<rateVars, pipeVars, batchVars, downloadVars, clickVars, pickupVars,
      resolverVars, runVars, listenVars, hrefVars, storeVars>>
outsidePipe ==
    <<rateVars, oldManifestVars, batchVars, downloadVars, clickVars,
      pickupVars, resolverVars, runVars, listenVars, hrefVars, storeVars>>
outsideBatch ==
    <<rateVars, manifestVars, oldManifestVars, pipeVars, downloadVars,
      clickVars, pickupVars, resolverVars, runVars, listenVars, hrefVars, storeVars>>
outsideDownload ==
    <<rateVars, manifestVars, oldManifestVars, pipeVars, batchVars, clickVars,
      pickupVars, resolverVars, runVars, listenVars, hrefVars, storeVars>>
outsideClick ==
    <<rateVars, manifestVars, oldManifestVars, pipeVars, batchVars,
      downloadVars, runVars, listenVars, hrefVars, storeVars>>
outsideRun ==
    <<rateVars, manifestVars, oldManifestVars, pipeVars, batchVars,
      downloadVars, clickVars, pickupVars, resolverVars, listenVars, hrefVars, storeVars>>
outsideListen ==
    <<rateVars, manifestVars, oldManifestVars, pipeVars, batchVars,
      downloadVars, clickVars, pickupVars, resolverVars, runVars, hrefVars, storeVars>>
outsideHref ==
    <<rateVars, manifestVars, oldManifestVars, pipeVars, batchVars,
      downloadVars, clickVars, pickupVars, resolverVars, runVars, listenVars,
      storeVars>>

outsideStore ==
    <<rateVars, manifestVars, oldManifestVars, pipeVars, batchVars,
      downloadVars, clickVars, pickupVars, resolverVars, runVars, listenVars,
      hrefVars>>

-----------------------------------------------------------------------------
(* Bounds *)
MaxConcurrency == 2
MaxInterval == 2
MaxTasks == 3
MaxClock == 4
MaxAdds == 3
MaxCandidates == 2
MaxRuns == 2
MaxRetries == 5
MaxUrls == 3
MaxCalls == 2
MaxPolls == 3

-----------------------------------------------------------------------------
(* Generic helpers *)

RECURSIVE SeqSum(_)
SeqSum(s) == IF s = <<>> THEN 0 ELSE Head(s) + SeqSum(Tail(s))

Range(s) == {s[i] : i \in 1..Len(s)}

\* Insert x into the ascending sequence s (the timer list is kept by due time).
RECURSIVE InsertAsc(_, _)
InsertAsc(x, s) ==
    IF s = <<>> THEN <<x>>
    ELSE IF x <= Head(s) THEN <<x>> \o s
    ELSE <<Head(s)>> \o InsertAsc(x, Tail(s))

RemoveAt(s, i) == SubSeq(s, 1, i - 1) \o SubSeq(s, i + 1, Len(s))

-----------------------------------------------------------------------------
(* RateLimiter *)

\* process(), line 26: the early return when the limiter is saturated or idle.
Saturated_NoLimit(running, concurrency, queue) == queue = <<>>

Saturated(running, concurrency, queue) ==
    running >= concurrency \/ queue = <<>>

\* process(), lines 30-34: the pacing test.
TooSoon_Never(now, lastRequest, minInterval) == FALSE

TooSoon(now, lastRequest, minInterval) ==
    now - lastRequest < minInterval

\* process(), line 44: this.lastRequest = Date.now() when a task is started.
Stamp_Never(now) == 0

Stamp(now) == now

\* process(): one call, on the limiter state st (a record of the fields).
\* Returns the state after its synchronous part: nothing, a timer armed, or the
\* head of the queue started.
Process(st) ==
    IF Saturated(st.running, rl_concurrency, st.queue) THEN st
    ELSE IF TooSoon(rl_now, st.lastRequest, rl_minInterval)
         THEN [st EXCEPT !.timers =
                  InsertAsc(st.lastRequest + rl_minInterval, st.timers)]
         ELSE [st EXCEPT !.queue = Tail(st.queue),
                         !.running = st.running + 1,
                         !.lastRequest = Stamp(rl_now),
                         !.active = st.active \cup {Head(st.queue)},
                         !.started = Append(st.started, <<Head(st.queue), rl_now>>)]

RLState == [queue |-> rl_queue, running |-> rl_running, lastRequest |-> rl_lastRequest,
            timers |-> rl_timers, ticks |-> rl_ticks, active |-> rl_active,
            started |-> rl_started]

RLSet(st) ==
    /\ rl_queue' = st.queue
    /\ rl_running' = st.running
    /\ rl_lastRequest' = st.lastRequest
    /\ rl_timers' = st.timers
    /\ rl_ticks' = st.ticks
    /\ rl_active' = st.active
    /\ rl_started' = st.started

\* this.queue.push(...) of add(), and this.queue.shift() of process(), which
\* takes the head (Head / Tail in Process).
Enqueue_Front(queue, task) == <<task>> \o queue

Enqueue(queue, task) == Append(queue, task)

\* add(fn): push the wrapped task, then call process().
AddUpTo(limit) ==
    /\ rl_added < limit
    /\ rl_added' = rl_added + 1
    /\ rl_addTimes' = Append(rl_addTimes, rl_now)
    /\ RLSet(Process([RLState EXCEPT !.queue = Enqueue(rl_queue, rl_added + 1)]))
    /\ UNCHANGED <<rl_concurrency, rl_minInterval, rl_now, rl_wait, outsideRate>>

Add == AddUpTo(MaxTasks)

\* A pacing timer armed by process() fires (at or after its due time) and
\* calls process() again.
TimerFire ==
    /\ \E i \in 1..Len(rl_timers) :
          /\ rl_timers[i] <= rl_now
          /\ RLSet(Process([RLState EXCEPT !.timers = RemoveAt(rl_timers, i)]))
    /\ UNCHANGED <<rl_concurrency, rl_minInterval, rl_now, rl_added, rl_addTimes,
                   rl_wait, outsideRate>>

\* process.nextTick(() => this.process()) of the finally block.
Wake_None(ticks) == ticks

Wake(ticks) == ticks + 1

\* A started task settles: the finally block of process() runs.
TaskDone ==
    /\ \E t \in rl_active :
          RLSet([RLState EXCEPT !.running = rl_running - 1,
                                !.active = rl_active \ {t},
                                !.ticks = Wake(rl_ticks)])
    /\ UNCHANGED <<rl_concurrency, rl_minInterval, rl_now, rl_added, rl_addTimes,
                   rl_wait, outsideRate>>

\* The process.nextTick callback scheduled by the finally block runs process().
NextTick ==
    /\ rl_ticks > 0
    /\ RLSet(Process([RLState EXCEPT !.ticks = rl_ticks - 1]))
    /\ UNCHANGED <<rl_concurrency, rl_minInterval, rl_now, rl_added, rl_addTimes,
                   rl_wait, outsideRate>>

\* The clock advances.
ClockTick ==
    /\ rl_now < MaxInterval + MaxClock
    /\ rl_now' = rl_now + 1
    /\ UNCHANGED <<rl_concurrency, rl_minInterval, rl_queue, rl_running, rl_lastRequest,
                   rl_timers, rl_ticks, rl_active, rl_started, rl_added, rl_addTimes,
                   rl_wait, outsideRate>>

RateInit ==
    /\ rl_concurrency \in 1..MaxConcurrency
    /\ rl_minInterval \in 1..MaxInterval
    /\ rl_queue = <<>>
    /\ rl_running = 0
    /\ rl_lastRequest = 0
    /\ rl_now = MaxInterval      \* Date.now() is far beyond any interval after 0
    /\ rl_timers = <<>>
    /\ rl_ticks = 0
    /\ rl_active = {}
    /\ rl_started = <<>>
    /\ rl_added = 0
    /\ rl_addTimes = <<>>
    /\ rl_wait = "none"

\* while (this.running > 0 || this.queue.length > 0)
Busy(running, queue) == running > 0 \/ queue # <<>>

\* waitForCompletion() is called: it returns at once or starts polling.
WaitCall ==
    /\ rl_wait = "none"
    /\ rl_wait' = IF Busy(rl_running, rl_queue) THEN "polling" ELSE "returned"
    /\ UNCHANGED <<rl_concurrency, rl_minInterval, rl_queue, rl_running, rl_lastRequest,
                   rl_now, rl_timers, rl_ticks, rl_active, rl_started, rl_added,
                   rl_addTimes, outsideRate>>

\* A 100 ms wait of waitForCompletion() ends and the loop test fails.
WaitPoll ==
    /\ rl_wait = "polling"
    /\ ~Busy(rl_running, rl_queue)
    /\ rl_wait' = "returnedAfterPolling"
    /\ UNCHANGED <<rl_concurrency, rl_minInterval, rl_queue, rl_running, rl_lastRequest,
                   rl_now, rl_timers, rl_ticks, rl_active, rl_started, rl_added,
                   rl_addTimes, outsideRate>>

RateNext == Add \/ TimerFire \/ TaskDone \/ NextTick \/ ClockTick

\* The limiter with time that goes on as long as a pacing timer has not
\* reached its due time, and with a caller of waitForCompletion().
MaxLiveTasks == 2
MaxLiveClock == 1

LiveConcurrencies == {1, 2}
LiveIntervals == {1, 2}

LiveAdd == AddUpTo(MaxLiveTasks)

LiveClockTick ==
    /\ \/ rl_now < 2 + MaxLiveClock
       \/ \E i \in 1..Len(rl_timers) : rl_timers[i] > rl_now
    /\ rl_now' = rl_now + 1
    /\ UNCHANGED <<rl_concurrency, rl_minInterval, rl_queue, rl_running, rl_lastRequest,
                   rl_timers, rl_ticks, rl_active, rl_started, rl_added, rl_addTimes,
                   rl_wait, outsideRate>>

RateLiveInit ==
    /\ rl_concurrency \in LiveConcurrencies
    /\ rl_minInterval \in LiveIntervals
    /\ rl_queue = <<>>
    /\ rl_running = 0
    /\ rl_lastRequest = 0
    /\ rl_now = 2               \* Date.now() is beyond any interval after 0
    /\ rl_timers = <<>>
    /\ rl_ticks = 0
    /\ rl_active = {}
    /\ rl_started = <<>>
    /\ rl_added = 0
    /\ rl_addTimes = <<>>
    /\ rl_wait = "none"

RateLiveNext ==
    \/ LiveAdd \/ TimerFire \/ TaskDone \/ NextTick \/ LiveClockTick
    \/ WaitCall \/ WaitPoll

RateIdle ==
    /\ rl_concurrency = 1 /\ rl_minInterval = 1 /\ rl_queue = <<>> /\ rl_running = 0
    /\ rl_lastRequest = 0 /\ rl_now = 0 /\ rl_timers = <<>> /\ rl_ticks = 0
    /\ rl_active = {} /\ rl_started = <<>> /\ rl_added = 0 /\ rl_addTimes = <<>>
    /\ rl_wait = "none"

-----------------------------------------------------------------------------
(* Category codes and their order *)

\* The category codes in ascending order of Array.prototype.sort() without a
\* comparator (UTF-16 code units of the strings).
CodeOrder == <<"AP", "BLD", "IMG", "MAP", "NOI", "NT", "OTH", "PORTAL",
               "REG", "RS", "RTR", "TEN", "UNK", "ZON">>

CodeRank(c) == CHOOSE i \in 1..Len(CodeOrder) : CodeOrder[i] = c

\* new Set(array): the distinct elements, in order of first occurrence.
RECURSIVE SetFromArray(_)
SetFromArray(a) ==
    IF a = <<>> THEN <<>>
    ELSE LET init == SetFromArray(SubSeq(a, 1, Len(a) - 1))
             x == a[Len(a)]
         IN IF x \in Range(init) THEN init ELSE Append(init, x)

\* array.sort() on codes: insertion of each element at its place.
RECURSIVE InsertByRank(_, _)
InsertByRank(x, s) ==
    IF s = <<>> THEN <<x>>
    ELSE IF CodeRank(x) <= CodeRank(Head(s)) THEN <<x>> \o s
    ELSE <<Head(s)>> \o InsertByRank(x, Tail(s))

RECURSIVE SortCodes(_)
SortCodes(a) ==
    IF a = <<>> THEN <<>> ELSE InsertByRank(Head(a), SortCodes(Tail(a)))

\* array.map(a => a.code)
RECURSIVE MapCode(_)
MapCode(atts) ==
    IF atts = <<>> THEN <<>> ELSE <<Head(atts).code>> \o MapCode(Tail(atts))

\* array.reduce((sum, a) => sum + (a.size || 0), 0)
RECURSIVE SumSize(_)
SumSize(atts) ==
    IF atts = <<>> THEN 0 ELSE Head(atts).size + SumSize(Tail(atts))

-----------------------------------------------------------------------------
(* Manifest, the version with kinds *)

IsFile(a) == a.kind = "file"
IsLink(a) == a.kind = "link"
IsSuccess(a) == a.success
IsFailure(a) == ~a.success

\* updateStats(), lines 86-88: the entries whose category counts as found.
Successful_AnyKind(atts) == SelectSeq(atts, IsSuccess)

Successful(atts) == SelectSeq(SelectSeq(atts, IsFile), IsSuccess)

\* updateStats(), lines 86-100: data.stats recomputed from data.attachments.
StatsOf_LinksAsFailures(atts) ==
    LET files == SelectSeq(atts, IsFile)
        successful == Successful(atts)
    IN [ok |-> Len(successful),
        fail |-> Len(atts) - Len(successful),
        skipped |-> Len(SelectSeq(atts, IsLink)),
        retries |-> 0,
        totalFiles |-> Len(files),
        totalSize |-> SumSize(atts),
        codes |-> SortCodes(SetFromArray(MapCode(successful)))]

StatsOf(atts) ==
    LET files == SelectSeq(atts, IsFile)
        successful == Successful(atts)
        failed == SelectSeq(files, IsFailure)
        links == SelectSeq(atts, IsLink)
    IN [ok |-> Len(successful),
        fail |-> Len(failed),
        skipped |-> Len(links),
        retries |-> 0,
        totalFiles |-> Len(files),
        totalSize |-> SumSize(successful),
        codes |-> SortCodes(SetFromArray(MapCode(successful)))]

\* updateStats(), lines 102-105: data.missing recomputed.
MissingOf(required, atts) ==
    LET codes == Range(MapCode(Successful(atts)))
        NotFound(c) == c \notin codes
    IN SortCodes(SelectSeq(SetFromArray(required), NotFound))

\* The constructor: no attachment, zero statistics and an empty missing list.
EmptyStats == [ok |-> 0, fail |-> 0, skipped |-> 0, retries |-> 0,
               totalFiles |-> 0, totalSize |-> 0, codes |-> <<>>]

ManifestNew ==
    /\ mf_attachments = <<>>
    /\ mf_stats = EmptyStats
    /\ mf_missing = <<>>

\* add(attachment): push, then updateStats().
ManifestAdd(a) ==
    /\ mf_attachments' = Append(mf_attachments, a)
    /\ mf_stats' = StatsOf(Append(mf_attachments, a))
    /\ mf_missing' = MissingOf(requiredCodes, Append(mf_attachments, a))

\* getMissing() and hasRequiredCodes()
getMissing == mf_missing
hasRequiredCodes == Len(mf_missing) = 0

\* The attachments handed to add(): files that succeeded or failed and links, of
\* required and other categories, with and without a size.
AttachmentInputs ==
    {[kind |-> "file", code |-> c, size |-> z, success |-> TRUE, path |-> <<>>] :
        c \in {"REG", "AP"}, z \in {1, 2}}
    \cup {[kind |-> "file", code |-> "TEN", size |-> 1, success |-> TRUE, path |-> <<>>]}
    \cup {[kind |-> "file", code |-> c, size |-> 1, success |-> FALSE, path |-> <<>>] :
        c \in {"REG", "AP"}}
    \cup {[kind |-> "link", code |-> c, size |-> 1, success |-> b, path |-> <<>>] :
        c \in {"AP", "MAP"}, b \in BOOLEAN}

\* The requiredCodes arrays a Manifest is constructed with: in any order and
\* with repetitions (CODES is a user-written list).
RequiredInputs ==
    {<<>>, <<"REG", "AP">>, <<"ZON", "AP", "ZON">>, <<"REG", "BLD", "AP">>}

ManifestAddCall ==
    /\ Len(mf_attachments) + Len(om_attachments) < MaxAdds
    /\ \E a \in AttachmentInputs : ManifestAdd(a)
    /\ UNCHANGED <<requiredCodes, oldManifestVars, outsideManifest>>

-----------------------------------------------------------------------------
(* Manifest, the earlier version without kinds (src/utils/manifest.ts) *)

OldStatsOf(atts) ==
    LET successful == SelectSeq(atts, IsSuccess)
    IN [total |-> Len(atts),
        success |-> Len(successful),
        failed |-> Len(atts) - Len(successful),
        totalSize |-> SumSize(successful),
        codes |-> SortCodes(SetFromArray(MapCode(successful)))]

OldMissingOf(required, atts) ==
    LET codes == Range(MapCode(SelectSeq(atts, IsSuccess)))
        NotFound(c) == c \notin codes
    IN SortCodes(SelectSeq(SetFromArray(required), NotFound))

OldEmptyStats == [total |-> 0, success |-> 0, failed |-> 0, totalSize |-> 0,
                  codes |-> <<>>]

OldManifestNew ==
    /\ om_attachments = <<>>
    /\ om_stats = OldEmptyStats
    /\ om_missing = <<>>

OldManifestAdd(a) ==
    /\ om_attachments' = Append(om_attachments, a)
    /\ om_stats' = OldStatsOf(Append(om_attachments, a))
    /\ om_missing' = OldMissingOf(requiredCodes, Append(om_attachments, a))

OldAttachmentInputs ==
    {[code |-> c, size |-> z, success |-> TRUE] : c \in {"REG", "AP"}, z \in {1, 2}}
    \cup {[code |-> c, size |-> 0, success |-> FALSE] : c \in {"REG", "AP"}}

OldManifestAddCall ==
    /\ Len(mf_attachments) + Len(om_attachments) < MaxAdds
    /\ \E a \in OldAttachmentInputs : OldManifestAdd(a)
    /\ UNCHANGED <<manifestVars, outsideManifest>>

ManifestInit ==
    /\ requiredCodes \in RequiredInputs
    /\ ManifestNew
    /\ OldManifestNew

ManifestIdle ==
    /\ requiredCodes = <<>>
    /\ ManifestNew
    /\ OldManifestNew

ManifestNext == ManifestAddCall \/ OldManifestAddCall

-----------------------------------------------------------------------------
(* processUrl of pipeline/run: the processing of one case *)

\* createSafeFilename(prefix, code, seq, label, '') joined to the case directory:
\* saveBase of the candidate at position seq (1-based, as String(seq + 1)).
SaveBase(seq, cand) == <<"base", seq, cand.code, cand.label>>

\* `${saveBase}${ext}`: download event, direct fetch, OS pickup, dry run.
WithExt(saveBase, ext) == Append(saveBase, ext)

\* nameFromCD(cd, basename(saveBase) + ext) joined to dirname(saveBase): the name
\* of the Content-Disposition header when there is one, else the default.
NamedFromCD(saveBase, ext, cd) ==
    IF cd = <<>> THEN WithExt(saveBase, ext) ELSE <<"cd">> \o cd

\* clickResolveAndSaveV2: the path it saves to and returns, by the strategy that
\* yields the file; <<>> stands for null (no strategy yielded a file).
SavedPath(saveBase, outcome) ==
    CASE outcome.how = "download" -> WithExt(saveBase, outcome.ext)
      [] outcome.how = "response" -> NamedFromCD(saveBase, outcome.ext, outcome.cd)
      [] outcome.how = "direct" -> WithExt(saveBase, outcome.ext)
      [] OTHER -> <<>>

\* What one click can lead to: a download event, a sniffed file response with or
\* without a Content-Disposition name, a direct fetch of the href, or nothing.
ClickOutcomes ==
    {[how |-> "download", ext |-> "pdf", cd |-> <<>>, size |-> 3],
     [how |-> "download", ext |-> "hwp", cd |-> <<>>, size |-> 1],
     [how |-> "response", ext |-> "pdf", cd |-> <<>>, size |-> 1],
     [how |-> "response", ext |-> "pdf", cd |-> <<"report", "pdf">>, size |-> 1],
     [how |-> "direct", ext |-> "pdf", cd |-> <<>>, size |-> 1],
     [how |-> "none", ext |-> "", cd |-> <<>>, size |-> 0]}

\* What is recorded as click when no click is made, and for the captures of
\* captureNOI, downloadIMG and downloadRTR.
NoClick == [how |-> "no click", ext |-> "", cd |-> <<>>, size |-> 0]
Capture == [how |-> "capture", ext |-> "", cd |-> <<>>, size |-> 0]

\* captureNOI: the files it reports, under fixed names of the case.
NOIResults ==
    {[paths |-> <<>>, success |-> FALSE],
     [paths |-> << <<"noi", "html">> >>, success |-> TRUE],
     [paths |-> << <<"noi", "html">>, <<"noi", "png">>, <<"noi", "pdf">> >>,
      success |-> TRUE]}

\* downloadRTR: the clicked file saved from saveBase `..__RTR_01_transactions`,
\* else the table written as `..__RTR_01_transactions.csv`.
RTRResults ==
    {[paths |-> <<>>, success |-> FALSE]}
    \cup {[paths |-> << SavedPath(<<"rtr">>, o) >>, success |-> TRUE] :
             o \in {c \in ClickOutcomes : c.how \in {"download", "response"}}}
    \cup {[paths |-> << <<"rtr", "csv">> >>, success |-> TRUE]}

\* downloadIMG: the clicked file saved from saveBase `..__IMG_01_<label>`, else
\* the images of the page saved as `..__IMG_<i>_image<ext>`.
IMGResults(cand) ==
    {[paths |-> <<>>, success |-> FALSE],
     [paths |-> << WithExt(<<"img", cand.label>>, "jpg") >>, success |-> TRUE],
     [paths |-> << <<"imgscan", 1, "jpg">>, <<"imgscan", 2, "jpg">> >>,
      success |-> TRUE]}

\* The candidates filterAndMap can hand over.
CandidateInputs ==
    {[kind |-> "link", code |-> "MAP", label |-> "map", href |-> "/map"],
     [kind |-> "file", code |-> "AP", label |-> "appraisal", href |-> "/ap"],
     [kind |-> "file", code |-> "REG", label |-> "registry", href |-> "/reg"],
     [kind |-> "file", code |-> "NOI", label |-> "notice", href |-> "/noi"],
     [kind |-> "file", code |-> "IMG", label |-> "photo", href |-> "/img"],
     [kind |-> "file", code |-> "RTR", label |-> "trades", href |-> "/rtr"]}

FileEntry(code, path, size) ==
    [kind |-> "file", code |-> code, size |-> size, success |-> TRUE, path |-> path,
     ext |-> path[Len(path)]]

FailedEntry(code) ==
    [kind |-> "file", code |-> code, size |-> 0, success |-> FALSE, path |-> <<>>]

LinkEntry(code, url) ==
    [kind |-> "link", code |-> code, size |-> 0, success |-> TRUE, path |-> <<>>,
     url |-> url]

\* manifest.add() for each of a list of entries, in order.
ManifestAddAll(entries) ==
    /\ mf_attachments' = mf_attachments \o entries
    /\ mf_stats' = StatsOf(mf_attachments \o entries)
    /\ mf_missing' = MissingOf(requiredCodes, mf_attachments \o entries)

RECURSIVE EntriesOfPaths(_, _)
EntriesOfPaths(code, paths) ==
    IF paths = <<>> THEN <<>>
    ELSE <<FileEntry(code, Head(paths), 1)>> \o EntriesOfPaths(code, Tail(paths))

\* The data written by manifest.save().
ManifestData == [attachments |-> mf_attachments, missing |-> mf_missing,
                 stats |-> mf_stats]

\* Manifest.save without the write.
Save_Nothing(data) == <<>>

\* Manifest.save(outputDir): MANIFEST.json of the case holds this.data.
Save(data) == <<data>>

\* The MANIFEST.json an earlier run on the case has left: the registry copy
\* was acquired, AP was not.
PriorData ==
    LET atts == <<FileEntry("REG", <<"base", 1, "REG", "reg", "pdf">>, 3)>>
    IN  [attachments |-> atts, missing |-> <<"AP">>, stats |-> StatsOf(atts)]

\* vendor.open(url) fails, or the page cannot be loaded: processUrl returns a
\* failure (lines 137-140, 160-162, 436-442).
OpenFails ==
    /\ pp_pc = "open"
    /\ pp_pc' = "done"
    /\ pp_result' = <<[success |-> FALSE, fileCount |-> 0, missingCodes |-> <<>>]>>
    /\ UNCHANGED <<pp_prior, pp_dryRun, pp_cands, pp_produced, pp_failures, pp_clicks,
                   pp_writes, pp_saved, manifestVars, outsidePipe>>

\* The page opens and the Manifest is constructed (lines 137-162).
Open ==
    /\ pp_pc = "open"
    /\ pp_pc' = "collect"
    /\ UNCHANGED <<pp_prior, pp_dryRun, pp_cands, pp_produced, pp_failures, pp_clicks,
                   pp_writes, pp_saved, pp_result,
                   manifestVars, outsidePipe>>

\* collectLinksV2 reports softEmpty: the manifest is saved as it is and the case
\* returns success with the required codes as missing (lines 190-204).
SoftEmpty ==
    /\ pp_pc = "collect"
    /\ pp_pc' = "done"
    /\ pp_saved' = Save(ManifestData)
    /\ pp_result' = <<[success |-> TRUE, fileCount |-> 0,
                       missingCodes |-> requiredCodes]>>
    /\ UNCHANGED <<pp_prior, pp_dryRun, pp_cands, pp_produced, pp_failures, pp_clicks,
                   pp_writes, manifestVars, outsidePipe>>

\* Links were collected: the candidate loop starts (lines 206-213).
Collected ==
    /\ pp_pc = "collect"
    /\ pp_pc' = "loop"
    /\ UNCHANGED <<pp_prior, pp_dryRun, pp_cands, pp_produced, pp_failures, pp_clicks,
                   pp_writes, pp_saved, pp_result,
                   manifestVars, outsidePipe>>

NextCandidate(cand) ==
    /\ pp_pc = "loop"
    /\ Len(pp_cands) < MaxCandidates
    /\ cand \in CandidateInputs
    /\ pp_cands' = Append(pp_cands, cand)

\* Where the case stands after one candidate: the try/catch inside the loop
\* (lines 216, 380-393) keeps a failure in the loop, so that the loop goes on
\* and nothing is returned yet.
AfterCandidate_Abort(failed) ==
    IF failed
    THEN [pc |-> "done",
          result |-> <<[success |-> FALSE, fileCount |-> 0, missingCodes |-> <<>>]>>]
    ELSE [pc |-> "loop", result |-> <<>>]

AfterCandidate(failed) == [pc |-> "loop", result |-> <<>>]

\* The entries one candidate adds, recorded with their number, and whether the
\* candidate failed.
CandidateAdds(entries, failed, click) ==
    /\ ManifestAddAll(entries)
    /\ pp_clicks' = Append(pp_clicks, click)
    /\ pp_produced' = Append(pp_produced, Len(entries))
    /\ pp_failures' = Append(pp_failures, failed)
    /\ pp_pc' = AfterCandidate(failed).pc
    /\ pp_result' = AfterCandidate(failed).result

\* A candidate of kind 'link' (lines 217-231).
LinkCandidate ==
    /\ \E cand \in CandidateInputs :
          /\ NextCandidate(cand)
          /\ cand.kind = "link"
          /\ CandidateAdds(<<LinkEntry(cand.code, cand.href)>>, FALSE, NoClick)
    /\ UNCHANGED <<pp_prior, pp_dryRun, pp_writes, pp_saved, requiredCodes, outsidePipe>>

\* A NOI, IMG or RTR candidate (lines 234-322): one entry per file captured, a
\* failed entry when the capture reports failure.  statSync of a reported path
\* may throw (thrownAt > 0): the entries before it stay and the catch block
\* (lines 380-393) adds a failed entry.
SpecialEntries(cand, res, thrownAt) ==
    IF thrownAt > 0
    THEN EntriesOfPaths(cand.code, SubSeq(res.paths, 1, thrownAt - 1))
            \o <<FailedEntry(cand.code)>>
    ELSE EntriesOfPaths(cand.code, res.paths)
            \o (IF res.success THEN <<>> ELSE <<FailedEntry(cand.code)>>)

SpecialResults(cand) ==
    CASE cand.code = "NOI" -> NOIResults
      [] cand.code = "IMG" -> IMGResults(cand)
      [] OTHER -> RTRResults

SpecialCandidate ==
    /\ \E cand \in CandidateInputs :
          /\ NextCandidate(cand)
          /\ cand.kind = "file"
          /\ cand.code \in {"NOI", "IMG", "RTR"}
          /\ \E res \in SpecialResults(cand) :
                \E thrownAt \in 0..Len(res.paths) :
                   /\ CandidateAdds(SpecialEntries(cand, res, thrownAt),
                                    thrownAt > 0 \/ ~res.success, Capture)
                   /\ pp_writes' = pp_writes \o res.paths
    /\ UNCHANGED <<pp_prior, pp_dryRun, pp_saved, requiredCodes, outsidePipe>>

\* A general file candidate in dry-run mode (lines 335-347).
DryRunCandidate ==
    /\ pp_dryRun
    /\ \E cand \in CandidateInputs :
          /\ NextCandidate(cand)
          /\ cand.kind = "file"
          /\ cand.code \notin {"NOI", "IMG", "RTR"}
          /\ CandidateAdds(
                <<FileEntry(cand.code, WithExt(SaveBase(Len(pp_cands) + 1, cand), "pdf"), 0)>>,
                FALSE, NoClick)
    /\ UNCHANGED <<pp_prior, pp_dryRun, pp_writes, pp_saved, requiredCodes, outsidePipe>>

\* vendor.downloadFile: fs.statSync(savedPath).size, the byte length of the
\* file that was saved.
StatSize_Zero(outcome) == 0

StatSize(outcome) == outcome.size

\* Lines 351-377: what is recorded for the result of vendor.downloadFile.
DownloadEntries_FailedEntry(cand, path, size) ==
    IF path # <<>> THEN <<FileEntry(cand.code, path, size)>>
    ELSE <<FailedEntry(cand.code)>>

DownloadEntries_DropFailed(cand, path, size) ==
    IF path # <<>> THEN <<FileEntry(cand.code, path, size)>> ELSE <<>>

DownloadEntries(cand, path, size) ==
    IF path # <<>> THEN <<FileEntry(cand.code, path, size)>>
    ELSE <<LinkEntry("PORTAL", cand.href)>>

\* A general file candidate (lines 325-378): vendor.downloadFile, then a file
\* entry when a file was saved and a link entry with code PORTAL when not.
DownloadCandidate ==
    /\ ~pp_dryRun
    /\ \E cand \in CandidateInputs :
          /\ NextCandidate(cand)
          /\ cand.kind = "file"
          /\ cand.code \notin {"NOI", "IMG", "RTR"}
          /\ \E o \in ClickOutcomes :
                LET path == SavedPath(SaveBase(Len(pp_cands) + 1, cand), o)
                IN /\ pp_writes' = IF path # <<>> THEN Append(pp_writes, path)
                                                    ELSE pp_writes
                   /\ CandidateAdds(DownloadEntries(cand, path, StatSize(o)), path = <<>>, o)
    /\ UNCHANGED <<pp_prior, pp_dryRun, pp_saved, requiredCodes, outsidePipe>>

\* The loop is over: manifest.finish(), manifest.save() and the result
\* (lines 415-431).
Finish ==
    /\ pp_pc = "loop"
    /\ pp_pc' = "done"
    /\ pp_saved' = Save(ManifestData)
    /\ pp_result' = <<[success |-> TRUE, fileCount |-> mf_stats.ok,
                       missingCodes |-> getMissing]>>
    /\ UNCHANGED <<pp_prior, pp_dryRun, pp_cands, pp_produced, pp_failures, pp_clicks,
                   pp_writes, manifestVars, outsidePipe>>

\* config.codes filtered to the five required categories (line 151).
PipeRequiredInputs == {<<"REG", "AP">>, <<"AP">>}

PipeInit ==
    /\ pp_pc = "open"
    /\ pp_dryRun \in BOOLEAN
    /\ pp_cands = <<>>
    /\ pp_produced = <<>>
    /\ pp_failures = <<>>
    /\ pp_clicks = <<>>
    /\ pp_writes = <<>>
    /\ pp_prior \in {<<>>, <<PriorData>>}
    /\ pp_saved = pp_prior
    /\ pp_result = <<>>

PipeIdle ==
    /\ pp_pc = "idle"
    /\ pp_dryRun = FALSE
    /\ pp_cands = <<>>
    /\ pp_produced = <<>>
    /\ pp_failures = <<>>
    /\ pp_clicks = <<>>
    /\ pp_writes = <<>>
    /\ pp_saved = <<>>
    /\ pp_prior = <<>>
    /\ pp_result = <<>>

PipeNext ==
    \/ OpenFails \/ Open \/ SoftEmpty \/ Collected
    \/ LinkCandidate \/ SpecialCandidate \/ DryRunCandidate \/ DownloadCandidate
    \/ Finish

-----------------------------------------------------------------------------
(* ManifestManager and BatchCollector.processUrl (lib/manifest, batch) *)

\* private requiredCodes = ['AP', 'RS', 'REG', 'BLD', 'ZON']
ManagerRequiredCodes == <<"AP", "RS", "REG", "BLD", "ZON">>

\* this.requiredCodes.filter(code => !found.has(code))
RECURSIVE FilterNotFound(_, _)
FilterNotFound(codes, found) ==
    IF codes = <<>> THEN <<>>
    ELSE (IF Head(codes) \in found THEN <<>> ELSE <<Head(codes)>>)
            \o FilterNotFound(Tail(codes), found)

Counted_IgnoringSuccess(entry) == entry.code # ""

\* if (entry.success && entry.code): an absent code is the empty string
Counted(entry) == entry.success /\ entry.code # ""

RECURSIVE SelectCounted(_)
SelectCounted(entries) ==
    IF entries = <<>> THEN <<>>
    ELSE (IF Counted(Head(entries)) THEN <<Head(entries)>> ELSE <<>>)
            \o SelectCounted(Tail(entries))

\* The loop over the entries and the summary built from it.
SummaryOf(entries, totalCandidates) ==
    LET counted == SelectCounted(entries)
    IN [foundCodes |-> SortCodes(SetFromArray(MapCode(counted))),
        totalSize |-> SumSize(counted),
        successCount |-> Len(counted),
        failCount |-> totalCandidates - Len(counted)]

MissingFrom(entries) ==
    FilterNotFound(ManagerRequiredCodes, Range(MapCode(SelectCounted(entries))))

\* createManifest: one entry per candidate, from candidates[i] and downloadResults[i].
EntryOf(candidate, download) ==
    [code |-> candidate.code, originalText |-> candidate.text,
     filename |-> download.filename, size |-> download.size,
     success |-> download.success]

createManifest(candidates, downloadResults) ==
    LET entries == [i \in 1..Len(candidates) |-> EntryOf(candidates[i], downloadResults[i])]
    IN [totalCandidates |-> Len(candidates),
        processedFiles |-> entries,
        missing |-> MissingFrom(entries),
        summary |-> SummaryOf(entries, Len(candidates))]

ConcatFiles_NewOnly(existingFiles, newFiles) == newFiles

\* [...existing.processedFiles, ...newManifest.processedFiles]
ConcatFiles(existingFiles, newFiles) == existingFiles \o newFiles

mergeManifests(existing, newManifest) ==
    LET files == ConcatFiles(existing.processedFiles, newManifest.processedFiles)
        total == existing.totalCandidates + newManifest.totalCandidates
    IN [totalCandidates |-> total,
        processedFiles |-> files,
        missing |-> MissingFrom(files),
        summary |-> SummaryOf(files, total)]

\* A filename is the sequence of the words its stem is made of, joined by '_'
\* in the program, and its extension.
FileName(stem, ext) == [stem |-> stem, ext |-> ext]

Digits == <<"1", "2", "3", "4", "5", "6", "7", "8", "9">>

\* `${code}_${sanitizedText}`, code being candidate.code || 'UNK'
BaseStem(candidate) ==
    <<IF candidate.code = "" THEN "UNK" ELSE candidate.code>> \o candidate.text

Taken_DiskOnly(existingFiles, disk, filename) == filename \in disk

Taken_RegistryOnly(existingFiles, disk, filename) == filename \in existingFiles

\* this.existingFiles.has(filename) || fs.existsSync(path.join(outputDir, filename))
Taken(existingFiles, disk, filename) ==
    filename \in existingFiles \/ filename \in disk

\* The while loop of generateUniqueFilename, entered with counter and filename.
RECURSIVE UniqueFrom(_, _, _, _, _, _)
UniqueFrom(stem, ext, counter, filename, existingFiles, disk) ==
    IF Taken(existingFiles, disk, filename)
    THEN UniqueFrom(stem, ext, counter + 1,
                    FileName(stem \o <<Digits[counter]>>, ext), existingFiles, disk)
    ELSE filename

generateUniqueFilename(candidate, ext, existingFiles, disk) ==
    UniqueFrom(BaseStem(candidate), ext, 1, FileName(BaseStem(candidate), ext),
               existingFiles, disk)

\* getFileExtension(resolved.contentType, resolved.finalUrl): the extension of
\* the content type or URL the candidate resolves to, '.bin' when neither tells
\* (never empty, so getDefaultExtensionForCode is not reached).
getFileExtension(candidate) == candidate.ext

\* The filenames loadExistingManifest adds to existingFiles.
SuccessfulFilenames(manifest) ==
    {manifest.processedFiles[i].filename :
        i \in {k \in 1..Len(manifest.processedFiles) : manifest.processedFiles[k].success}}

\* The candidate lists a page scan may return; the text of a candidate is the
\* sequence of the words of its sanitized link text.
BatchCandidateLists ==
    {<<>>,
     <<[code |-> "AP", text |-> <<"a">>, ext |-> "pdf"]>>,
     <<[code |-> "AP", text |-> <<"a">>, ext |-> "pdf"],
       [code |-> "AP", text |-> <<"a", "1">>, ext |-> "pdf"]>>,
     <<[code |-> "AP", text |-> <<"a">>, ext |-> "pdf"],
       [code |-> "AP", text |-> <<"a">>, ext |-> "pdf"]>>,
     <<[code |-> "RS", text |-> <<"b">>, ext |-> "bin"],
       [code |-> "", text |-> <<"a">>, ext |-> "pdf"]>>}

\* Sizes of a file downloaded.
DownloadSizes == {1, 2}

clearFileCache_Keep(existingFiles) == existingFiles

\* clearFileCache(): this.existingFiles.clear()
clearFileCache(existingFiles) == {}

\* processUrl returns { success: false } when the scan finds no candidate; the
\* finally block clears the file cache.
BatchNoCandidates ==
    /\ bt_pc = "start"
    /\ bt_runs < MaxRuns
    /\ <<>> \in BatchCandidateLists
    /\ bt_existingFiles' = clearFileCache(bt_existingFiles)
    /\ bt_runs' = bt_runs + 1
    /\ bt_result' = <<[success |-> FALSE, missingCodes |-> <<>>]>>
    /\ UNCHANGED <<bt_pc, bt_dryRun, bt_cands, bt_downloads, bt_existing, bt_disk,
                   bt_file, bt_generated, bt_merge, outsideBatch>>

\* processUrl up to loadExistingManifest, which adds the filename of every
\* successful entry of MANIFEST.json to existingFiles.
BatchLoad ==
    /\ bt_pc = "start"
    /\ bt_runs < MaxRuns
    /\ \E cands \in BatchCandidateLists \ {<<>>}, dry \in BOOLEAN :
          /\ bt_cands' = cands
          /\ bt_dryRun' = dry
    /\ bt_existing' = bt_file
    /\ bt_existingFiles' =
          IF bt_file = <<>> THEN bt_existingFiles
          ELSE bt_existingFiles \cup SuccessfulFilenames(bt_file[1])
    /\ bt_downloads' = <<>>
    /\ bt_generated' = <<>>
    /\ bt_pc' = "download"
    /\ UNCHANGED <<bt_disk, bt_file, bt_merge, bt_runs, bt_result, outsideBatch>>

\* The download loop for a candidate whose URL was not resolved.
BatchUnresolved ==
    /\ bt_pc = "download"
    /\ Len(bt_downloads) < Len(bt_cands)
    /\ LET candidate == bt_cands[Len(bt_downloads) + 1]
       IN bt_downloads' = Append(bt_downloads,
              [filename |-> FileName(<<"FAILED">> \o candidate.text, ""),
               size |-> 0, success |-> FALSE])
    /\ UNCHANGED <<bt_pc, bt_dryRun, bt_cands, bt_existing, bt_existingFiles, bt_disk,
                   bt_file, bt_generated, bt_merge, bt_runs, bt_result, outsideBatch>>

\* The download loop for a resolved candidate: generateUniqueFilename, then
\* downloadFile, which in a dry run reports a success of size 0 without writing
\* and otherwise writes the file or fails after its retries.
BatchDownload ==
    /\ bt_pc = "download"
    /\ Len(bt_downloads) < Len(bt_cands)
    /\ LET candidate == bt_cands[Len(bt_downloads) + 1]
           filename == generateUniqueFilename(candidate, getFileExtension(candidate),
                           bt_existingFiles, bt_disk)
       IN /\ bt_existingFiles' = bt_existingFiles \cup {filename}
          /\ bt_generated' = Append(bt_generated, filename)
          /\ IF bt_dryRun
             THEN /\ bt_downloads' = Append(bt_downloads,
                        [filename |-> filename, size |-> 0, success |-> TRUE])
                  /\ bt_disk' = bt_disk
             ELSE \/ /\ bt_downloads' = Append(bt_downloads,
                           [filename |-> filename, size |-> 0, success |-> FALSE])
                     /\ bt_disk' = bt_disk
                  \/ \E size \in DownloadSizes :
                        /\ bt_downloads' = Append(bt_downloads,
                              [filename |-> filename, size |-> size, success |-> TRUE])
                        /\ bt_disk' = bt_disk \cup {filename}
    /\ UNCHANGED <<bt_pc, bt_dryRun, bt_cands, bt_existing, bt_file, bt_merge,
                   bt_runs, bt_result, outsideBatch>>

\* createManifest: the manifest of this run is built and written to
\* MANIFEST.json (lib/manifest lines 97-116).
BatchCreate ==
    /\ bt_pc = "download"
    /\ Len(bt_downloads) = Len(bt_cands)
    /\ bt_file' = <<createManifest(bt_cands, bt_downloads)>>
    /\ bt_pc' = "created"
    /\ UNCHANGED <<bt_dryRun, bt_cands, bt_downloads, bt_existing, bt_existingFiles,
                   bt_disk, bt_generated, bt_merge, bt_runs, bt_result, outsideBatch>>

\* mergeManifests when a manifest was loaded, the write of MANIFEST.json by
\* processUrl, the return, and the finally block's clearFileCache.
BatchFinish ==
    /\ bt_pc = "created"
    /\ LET newManifest == createManifest(bt_cands, bt_downloads)
           finalManifest == IF bt_existing # <<>>
                            THEN mergeManifests(bt_existing[1], newManifest)
                            ELSE newManifest
       IN /\ bt_file' = <<finalManifest>>
          /\ bt_merge' = IF bt_existing # <<>>
                         THEN <<[existing |-> bt_existing[1], new |-> newManifest,
                                 merged |-> finalManifest]>>
                         ELSE bt_merge
          /\ bt_result' = <<[success |-> TRUE, missingCodes |-> finalManifest.missing]>>
    /\ bt_existingFiles' = clearFileCache(bt_existingFiles)
    /\ bt_runs' = bt_runs + 1
    /\ bt_pc' = "start"
    /\ UNCHANGED <<bt_dryRun, bt_cands, bt_downloads, bt_existing, bt_disk,
                   bt_generated, outsideBatch>>

\* createManifest's fs.writeFile of MANIFEST.json throws: the catch of processUrl
\* returns { success: false } after the finally block cleared the file cache;
\* the files downloaded stay in the output directory.
BatchWriteFails ==
    /\ bt_pc = "download"
    /\ Len(bt_downloads) = Len(bt_cands)
    /\ bt_existingFiles' = clearFileCache(bt_existingFiles)
    /\ bt_runs' = bt_runs + 1
    /\ bt_pc' = "start"
    /\ bt_result' = <<[success |-> FALSE, missingCodes |-> <<>>]>>
    /\ UNCHANGED <<bt_dryRun, bt_cands, bt_downloads, bt_existing, bt_disk, bt_file,
                   bt_generated, bt_merge, outsideBatch>>

\* The fs.writeFile of processUrl (batch lines 198-201) throws: the same
\* return, MANIFEST.json staying as createManifest wrote it.
BatchFinalWriteFails ==
    /\ bt_pc = "created"
    /\ bt_existingFiles' = clearFileCache(bt_existingFiles)
    /\ bt_runs' = bt_runs + 1
    /\ bt_pc' = "start"
    /\ bt_result' = <<[success |-> FALSE, missingCodes |-> <<>>]>>
    /\ UNCHANGED <<bt_dryRun, bt_cands, bt_downloads, bt_existing, bt_disk, bt_file,
                   bt_generated, bt_merge, outsideBatch>>

BatchInit ==
    /\ bt_pc = "start"
    /\ bt_dryRun = FALSE
    /\ bt_cands = <<>>
    /\ bt_downloads = <<>>
    /\ bt_existing = <<>>
    /\ bt_existingFiles = {}
    /\ bt_disk = {}
    /\ bt_file = <<>>
    /\ bt_generated = <<>>
    /\ bt_merge = <<>>
    /\ bt_runs = 0
    /\ bt_result = <<>>

BatchIdle ==
    /\ bt_pc = "idle"
    /\ bt_dryRun = FALSE
    /\ bt_cands = <<>>
    /\ bt_downloads = <<>>
    /\ bt_existing = <<>>
    /\ bt_existingFiles = {}
    /\ bt_disk = {}
    /\ bt_file = <<>>
    /\ bt_generated = <<>>
    /\ bt_merge = <<>>
    /\ bt_runs = 0
    /\ bt_result = <<>>

BatchNext ==
    \/ BatchNoCandidates \/ BatchLoad \/ BatchUnresolved \/ BatchDownload
    \/ BatchCreate \/ BatchFinish \/ BatchWriteFails \/ BatchFinalWriteFails

-----------------------------------------------------------------------------
(* Downloader.download (utils/download) and FileDownloader.downloadFile *)

\* Math.min(1000 * Math.pow(2, attempt), 10000)
BaseDelay == 1000
DelayCap == 10000

\* buffer.length < 512, and isValidFile(finalPath, 512)
ErrorPageLimit == 512
MinValidSize == 512

\* FileDownloader: retryDelay = 1000, and buffer.length < 100 in isErrorResponse
RetryDelay == 1000
TinyLimit == 100

\* What a request may be answered with: thrown is the message of the error the
\* request throws ("" when it returns), ok is response.ok(), ct the declared
\* content-type, size the length of the body, html whether the leading bytes
\* hold an HTML document marker, errorText whether they hold one of the error
\* words looked for.
Responses ==
    {[thrown |-> "Timeout exceeded", ok |-> FALSE, ct |-> "", size |-> 0,
      html |-> FALSE, errorText |-> FALSE],
     [thrown |-> "", ok |-> FALSE, ct |-> "text/html", size |-> 50,
      html |-> TRUE, errorText |-> TRUE],
     [thrown |-> "", ok |-> TRUE, ct |-> "text/html", size |-> 50,
      html |-> TRUE, errorText |-> TRUE],
     [thrown |-> "", ok |-> TRUE, ct |-> "text/html", size |-> 2000,
      html |-> TRUE, errorText |-> FALSE],
     [thrown |-> "", ok |-> TRUE, ct |-> "application/pdf", size |-> 2000,
      html |-> TRUE, errorText |-> FALSE],
     [thrown |-> "", ok |-> TRUE, ct |-> "application/pdf", size |-> 300,
      html |-> FALSE, errorText |-> FALSE],
     [thrown |-> "", ok |-> TRUE, ct |-> "application/pdf", size |-> 2000,
      html |-> FALSE, errorText |-> FALSE]}

\* performDownload without the second integrity test (isValidFile).
performDownload_NoRecheck(resp) ==
    IF resp.thrown # "" THEN [error |-> resp.thrown, written |-> FALSE]
    ELSE IF ~resp.ok THEN [error |-> "HTTP 500", written |-> FALSE]
    ELSE IF resp.size < ErrorPageLimit /\ resp.errorText
    THEN [error |-> "Downloaded content appears to be an error page", written |-> FALSE]
    ELSE [error |-> "", written |-> TRUE]

\* Downloader.performDownload: the message of the error it throws ("" when it
\* returns a result) and whether it wrote the body to a file before.
performDownload(resp) ==
    IF resp.thrown # "" THEN [error |-> resp.thrown, written |-> FALSE]
    ELSE IF ~resp.ok THEN [error |-> "HTTP 500", written |-> FALSE]
    ELSE IF resp.size < ErrorPageLimit /\ resp.errorText
    THEN [error |-> "Downloaded content appears to be an error page", written |-> FALSE]
    ELSE IF ~(resp.size >= MinValidSize)
    THEN [error |-> "Downloaded file failed integrity check", written |-> TRUE]
    ELSE [error |-> "", written |-> TRUE]

\* FileDownloader.isErrorResponse
isErrorResponse(resp) ==
    IF resp.ct = "" THEN FALSE
    ELSE IF resp.ct = "text/html" THEN resp.errorText
    ELSE resp.size < TinyLimit

\* FileDownloader.performDownload, likewise.
FilePerformDownload(resp) ==
    IF resp.thrown # "" THEN [error |-> resp.thrown, written |-> FALSE]
    ELSE IF ~resp.ok THEN [error |-> "HTTP 500", written |-> FALSE]
    ELSE IF isErrorResponse(resp)
    THEN [error |-> "Response appears to be an error page", written |-> FALSE]
    ELSE [error |-> "", written |-> TRUE]

LoopContinues_Strict(attempt, retries) == attempt < retries

\* for (let attempt = 0; attempt <= retries; attempt++)
LoopContinues(attempt, retries) == attempt <= retries

\* for (let attempt = 1; attempt <= this.maxRetries; attempt++)
FileLoopContinues(attempt, maxRetries) == attempt <= maxRetries

BackoffDelay_Uncapped(attempt) == BaseDelay * 2^attempt

BackoffDelay(attempt) ==
    IF BaseDelay * 2^attempt < DelayCap THEN BaseDelay * 2^attempt ELSE DelayCap

\* this.retryDelay * Math.pow(2, attempt - 1)
FileBackoffDelay(attempt) == RetryDelay * 2^(attempt - 1)

FailureResult_Fallback(lastError, fallback) ==
    [success |-> FALSE, size |-> 0, error |-> fallback]

\* error: lastError?.message || fallback
FailureResult(lastError, fallback) ==
    [success |-> FALSE, size |-> 0,
     error |-> IF lastError # <<>> /\ lastError[1] # "" THEN lastError[1] ELSE fallback]

SuccessResult(size) == [success |-> TRUE, size |-> size, error |-> ""]

\* download(options): the loop is entered with attempt = 0.
DownloadCall ==
    /\ dl_pc = "idle"
    /\ \E retries \in 0..MaxRetries : dl_retries' = retries
    /\ dl_impl' = "Downloader"
    /\ dl_attempt' = 0
    /\ dl_pc' = "loop"
    /\ UNCHANGED <<dl_lastError, dl_tried, dl_errors, dl_delays, dl_written, dl_bodies, dl_result,
                   outsideDownload>>

\* One pass of the loop in which performDownload returns: its result is returned.
DownloadAttemptOk ==
    /\ dl_pc = "loop"
    /\ dl_impl = "Downloader"
    /\ \E resp \in Responses :
          /\ performDownload(resp).error = ""
          /\ dl_written' = dl_written \cup {resp}
          /\ dl_bodies' = Append(dl_bodies, resp.size)
          /\ dl_result' = <<SuccessResult(resp.size)>>
    /\ dl_tried' = dl_tried + 1
    /\ dl_pc' = "done"
    /\ UNCHANGED <<dl_impl, dl_retries, dl_attempt, dl_lastError, dl_errors, dl_delays,
                   outsideDownload>>

\* One pass of the loop in which performDownload throws: the catch block, the
\* wait when another attempt follows, and the return when the loop ends.
DownloadAttemptFails ==
    /\ dl_pc = "loop"
    /\ dl_impl = "Downloader"
    /\ \E resp \in Responses :
          LET out == performDownload(resp)
          IN /\ out.error # ""
             /\ dl_written' = IF out.written THEN dl_written \cup {resp} ELSE dl_written
             /\ dl_bodies' = Append(dl_bodies, resp.size)
             /\ dl_lastError' = <<out.error>>
             /\ dl_errors' = Append(dl_errors, out.error)
    /\ dl_tried' = dl_tried + 1
    /\ dl_delays' = IF dl_attempt < dl_retries
                    THEN Append(dl_delays, BackoffDelay(dl_attempt)) ELSE dl_delays
    /\ dl_attempt' = dl_attempt + 1
    /\ IF LoopContinues(dl_attempt + 1, dl_retries)
       THEN dl_pc' = "loop" /\ dl_result' = dl_result
       ELSE /\ dl_pc' = "done"
            /\ dl_result' = <<FailureResult(dl_lastError', "Unknown download error")>>
    /\ UNCHANGED <<dl_impl, dl_retries, outsideDownload>>

\* downloadFile(resolvedUrl, suggestedFilename, false) with a resolved URL: the
\* loop is entered with attempt = 1, or not at all.
FileDownloadCall ==
    /\ dl_pc = "idle"
    /\ dl_impl' = "FileDownloader"
    /\ dl_attempt' = 1
    /\ \E maxRetries \in 0..MaxRetries :
          /\ dl_retries' = maxRetries
          /\ IF FileLoopContinues(1, maxRetries)
             THEN dl_pc' = "loop" /\ dl_result' = dl_result
             ELSE /\ dl_pc' = "done"
                  /\ dl_result' = <<FailureResult(dl_lastError, "Max retries exceeded")>>
    /\ UNCHANGED <<dl_lastError, dl_tried, dl_errors, dl_delays, dl_written, dl_bodies,
                   outsideDownload>>

\* downloadFile with !resolvedUrl.success || !resolvedUrl.finalUrl
FileDownloadInvalid ==
    /\ dl_pc = "idle"
    /\ dl_impl' = "FileDownloader"
    /\ \E maxRetries \in 0..MaxRetries : dl_retries' = maxRetries
    /\ dl_result' = <<[success |-> FALSE, size |-> 0, error |-> "Invalid resolved URL"]>>
    /\ dl_pc' = "done"
    /\ UNCHANGED <<dl_attempt, dl_lastError, dl_tried, dl_errors, dl_delays, dl_written, dl_bodies,
                   outsideDownload>>

\* downloadFile with isDryRun
FileDownloadDryRun ==
    /\ dl_pc = "idle"
    /\ dl_impl' = "FileDownloader"
    /\ \E maxRetries \in 0..MaxRetries : dl_retries' = maxRetries
    /\ dl_result' = <<SuccessResult(0)>>
    /\ dl_pc' = "done"
    /\ UNCHANGED <<dl_attempt, dl_lastError, dl_tried, dl_errors, dl_delays, dl_written, dl_bodies,
                   outsideDownload>>

FileAttemptOk ==
    /\ dl_pc = "loop"
    /\ dl_impl = "FileDownloader"
    /\ \E resp \in Responses :
          /\ FilePerformDownload(resp).error = ""
          /\ dl_written' = dl_written \cup {resp}
          /\ dl_bodies' = Append(dl_bodies, resp.size)
          /\ dl_result' = <<SuccessResult(resp.size)>>
    /\ dl_tried' = dl_tried + 1
    /\ dl_pc' = "done"
    /\ UNCHANGED <<dl_impl, dl_retries, dl_attempt, dl_lastError, dl_errors, dl_delays,
                   outsideDownload>>

FileAttemptFails ==
    /\ dl_pc = "loop"
    /\ dl_impl = "FileDownloader"
    /\ \E resp \in Responses :
          LET out == FilePerformDownload(resp)
          IN /\ out.error # ""
             /\ dl_written' = IF out.written THEN dl_written \cup {resp} ELSE dl_written
             /\ dl_bodies' = Append(dl_bodies, resp.size)
             /\ dl_lastError' = <<out.error>>
             /\ dl_errors' = Append(dl_errors, out.error)
    /\ dl_tried' = dl_tried + 1
    /\ dl_delays' = IF dl_attempt < dl_retries
                    THEN Append(dl_delays, FileBackoffDelay(dl_attempt)) ELSE dl_delays
    /\ dl_attempt' = dl_attempt + 1
    /\ IF FileLoopContinues(dl_attempt + 1, dl_retries)
       THEN dl_pc' = "loop" /\ dl_result' = dl_result
       ELSE /\ dl_pc' = "done"
            /\ dl_result' = <<FailureResult(dl_lastError', "Max retries exceeded")>>
    /\ UNCHANGED <<dl_impl, dl_retries, outsideDownload>>

DownloadInit ==
    /\ dl_impl = "none"
    /\ dl_pc = "idle"
    /\ dl_retries = 0
    /\ dl_attempt = 0
    /\ dl_lastError = <<>>
    /\ dl_tried = 0
    /\ dl_errors = <<>>
    /\ dl_delays = <<>>
    /\ dl_written = {}
    /\ dl_bodies = <<>>
    /\ dl_result = <<>>

DownloadIdle ==
    /\ dl_impl = "none"
    /\ dl_pc = "off"
    /\ dl_retries = 0
    /\ dl_attempt = 0
    /\ dl_lastError = <<>>
    /\ dl_tried = 0
    /\ dl_errors = <<>>
    /\ dl_delays = <<>>
    /\ dl_written = {}
    /\ dl_bodies = <<>>
    /\ dl_result = <<>>

DownloadNext ==
    \/ DownloadCall \/ DownloadAttemptOk \/ DownloadAttemptFails
    \/ FileDownloadCall \/ FileDownloadInvalid \/ FileDownloadDryRun
    \/ FileAttemptOk \/ FileAttemptFails

-----------------------------------------------------------------------------
(* clickResolveAndSaveV2 (utils/downloader) with its OS-folder fallback *)

\* The body of a response of an allow-listed content type: html tells whether
\* its leading bytes hold an HTML document marker, cd is the filename of its
\* Content-Disposition header ("" when there is none).
Payloads == {[html |-> h, cd |-> c] : h \in BOOLEAN, c \in {"", "report.pdf"}}

\* /<html|<!doctype/i.test(contentStr)
HtmlDetected(payload) == payload.html

Persist(how, payload) == ck_saved' = ck_saved \cup {[how |-> how, payload |-> payload]}

ClickReturn(value) == ck_pc' = "returned" /\ ck_result' = <<value>>

\* The transport of a direct fetch: every one of them is a call of
\* context.request.get (downloader.ts lines 88, 145, 368; htmlPdfExtractor
\* lines 13, 78).
Transport(strategy) == "context.request.get"

Fetch(strategies) ==
    ck_fetches' = ck_fetches \cup
        {[strategy |-> st, via |-> Transport(st)] : st \in strategies}

Tried(strategy) == ck_tried' = Append(ck_tried, strategy)

pickupKept == UNCHANGED <<pickupVars, resolverVars, outsideClick>>

\* The click with the concurrent wait for a download and a page event (lines
\* 233-293), whatever originalHref is.  When the popup shows a viewer URL
\* extractPdfFromHtml fetches it: a PDF it gets is returned at once and the
\* popup closed.
Click ==
    /\ ck_pc = "idle"
    /\ ck_clicks' = ck_clicks + 1
    /\ \E dl \in BOOLEAN, pop \in BOOLEAN, viewer \in BOOLEAN, extracted \in BOOLEAN :
          /\ viewer => pop
          /\ extracted => viewer
          /\ ck_dl' = dl
          /\ ck_viewer' = viewer
          /\ IF viewer THEN Fetch({"extract"}) ELSE UNCHANGED ck_fetches
          /\ IF extracted
             THEN /\ ck_pop' = "closed"
                  /\ \E payload \in Payloads : Persist("extracted", payload)
                  /\ Tried("extract")
                  /\ ClickReturn("file")
             ELSE /\ ck_pop' = (IF pop THEN "open" ELSE "none")
                  /\ ck_pc' = "download"
                  /\ ck_tried' = (IF viewer THEN Append(ck_tried, "extract") ELSE ck_tried)
                  /\ UNCHANGED <<ck_saved, ck_result>>
    /\ UNCHANGED <<ck_href, ck_osEnabled, ck_dlFailed>>
    /\ pickupKept

\* 1) the download event (lines 298-312): saved to saveBase + ext and returned,
\* or the save throws and the next strategy is tried.
DownloadBranch ==
    /\ ck_pc = "download"
    /\ IF ck_dl
       THEN /\ Tried("download")
            /\ \/ /\ \E payload \in Payloads : Persist("download", payload)
                  /\ ClickReturn("file")
                  /\ UNCHANGED ck_dlFailed
               \/ /\ ck_pc' = "popup"
                  /\ ck_dlFailed' = TRUE
                  /\ UNCHANGED <<ck_saved, ck_result>>
       ELSE /\ ck_pc' = "popup"
            /\ UNCHANGED <<ck_tried, ck_dlFailed, ck_saved, ck_result>>
    /\ UNCHANGED <<ck_href, ck_osEnabled, ck_dl, ck_pop, ck_viewer, ck_clicks, ck_fetches>>
    /\ pickupKept

\* The direct fetches the popup branch has issued when it ends with `how`:
\* fetchDirectFromViewer fetches when the popup's URL is a viewer URL, the
\* src found in the DOM is fetched when there is one.
PopupFetches(how, srcFound) ==
    CASE how \in {"popup-response", "popup-button"} -> {}
      [] how = "popup-direct" -> {"viewer"}
      [] how = "popup-src" -> (IF ck_viewer THEN {"viewer", "src"} ELSE {"src"})
      [] OTHER -> (IF ck_viewer THEN {"viewer"} ELSE {})
                     \cup (IF srcFound THEN {"src"} ELSE {})

\* 2) the popup (lines 314-396): a sniffed file response, the viewer's download
\* button, the direct viewer URL or the src found in the DOM is saved, the popup
\* closed and the path returned; otherwise, and when something throws, the
\* popup is closed and the next strategy is tried.
PopupBranch ==
    /\ ck_pc = "popup"
    /\ IF ck_pop = "open"
       THEN /\ ck_pop' = "closed"
            /\ Tried("popup")
            /\ \/ \E how \in {"popup-response", "popup-button", "popup-direct", "popup-src"},
                     payload \in Payloads :
                     /\ how = "popup-direct" => ck_viewer
                     /\ Persist(how, payload)
                     /\ Fetch(PopupFetches(how, TRUE))
                     /\ ClickReturn("file")
               \/ \E srcFound \in BOOLEAN :
                     /\ Fetch(PopupFetches("none", srcFound))
                     /\ ck_pc' = "response"
                     /\ UNCHANGED <<ck_saved, ck_result>>
       ELSE /\ ck_pc' = "response"
            /\ UNCHANGED <<ck_pop, ck_tried, ck_fetches, ck_saved, ck_result>>
    /\ UNCHANGED <<ck_href, ck_osEnabled, ck_dl, ck_dlFailed, ck_viewer, ck_clicks>>
    /\ pickupKept

\* 3) a file response seen on the context (lines 398-422): rejected with null
\* when its first bytes are HTML, else saved and returned; when there is none
\* or the save throws, the next strategy is tried.
ResponseBranch ==
    /\ ck_pc = "response"
    /\ \/ /\ Tried("response")
          /\ \E payload \in Payloads :
                IF HtmlDetected(payload)
                THEN ClickReturn("null") /\ UNCHANGED ck_saved
                ELSE Persist("response", payload) /\ ClickReturn("file")
       \/ /\ ck_pc' = "href"
          /\ UNCHANGED <<ck_tried, ck_saved, ck_result>>
    /\ UNCHANGED <<ck_href, ck_osEnabled, ck_dl, ck_dlFailed, ck_pop, ck_viewer, ck_clicks,
                   ck_fetches>>
    /\ pickupKept

\* The direct fetch of the original href (lines 424-434, fetchDirectFromHref):
\* the file it saves is returned, else the OS fallback is next.
HrefBranch ==
    /\ ck_pc = "href"
    /\ Tried("href")
    /\ Fetch({"href"})
    /\ \/ \E payload \in Payloads :
             /\ Persist("direct", payload)
             /\ ClickReturn("file")
       \/ /\ ck_pc' = "os"
          /\ UNCHANGED <<ck_saved, ck_result>>
    /\ UNCHANGED <<ck_href, ck_osEnabled, ck_dl, ck_dlFailed, ck_pop, ck_viewer, ck_clicks>>
    /\ pickupKept

\* The OS fallback is not enabled: return null (lines 437, 459-460).
OsSkipped ==
    /\ ck_pc = "os"
    /\ ~ck_osEnabled
    /\ ClickReturn("null")
    /\ UNCHANGED <<ck_href, ck_osEnabled, ck_dl, ck_dlFailed, ck_pop, ck_viewer, ck_clicks,
                   ck_fetches, ck_tried, ck_saved>>
    /\ pickupKept

\* What one pass of the loop of waitAndPickupFromOS can find: readdirSync or
\* statSync throws, no file matches the pattern, or the newest matching file
\* with its size.
PollFindings ==
    {[kind |-> "error", file |-> "", size |-> 0],
     [kind |-> "empty", file |-> "", size |-> 0]}
    \cup {[kind |-> "file", file |-> f, size |-> z] : f \in {"a.pdf", "b.zip"}, z \in 0..2}

\* Line 29: last === p && sz === lastSize && sz > 0
Stable(file, size, last, lastSize) ==
    last = <<file>> /\ size = lastSize /\ size > 0

\* One pass of the loop (lines 13-41) while the timeout has not elapsed.
OsPoll ==
    /\ ck_pc = "os"
    /\ ck_osEnabled
    /\ os_picked = <<>>
    /\ Len(os_polls) < MaxPolls
    /\ \E found \in PollFindings :
          /\ os_polls' = Append(os_polls, found)
          /\ IF found.kind = "file"
             THEN IF Stable(found.file, found.size, os_last, os_lastSize)
                  THEN /\ os_picked' = <<found.file>>
                       /\ UNCHANGED <<os_last, os_lastSize>>
                  ELSE /\ os_last' = <<found.file>>
                       /\ os_lastSize' = found.size
                       /\ UNCHANGED os_picked
             ELSE UNCHANGED <<os_last, os_lastSize, os_picked>>
    /\ ck_tried' = (IF os_polls = <<>> THEN Append(ck_tried, "os") ELSE ck_tried)
    /\ UNCHANGED <<ck_pc, ck_href, ck_osEnabled, ck_dl, ck_dlFailed, ck_pop, ck_viewer,
                   ck_clicks, ck_fetches, ck_saved, ck_result>>
    /\ UNCHANGED <<resolverVars, outsideClick>>

\* The timeout has elapsed: waitAndPickupFromOS returns null (lines 43-44) and
\* clickResolveAndSaveV2 returns null.
OsTimeout ==
    /\ ck_pc = "os"
    /\ ck_osEnabled
    /\ os_picked = <<>>
    /\ Len(os_polls) = MaxPolls
    /\ os_picked' = <<"null">>
    /\ ClickReturn("null")
    /\ UNCHANGED <<os_polls, os_last, os_lastSize>>
    /\ UNCHANGED <<ck_href, ck_osEnabled, ck_dl, ck_dlFailed, ck_pop, ck_viewer, ck_clicks,
                   ck_fetches, ck_tried, ck_saved>>
    /\ UNCHANGED <<resolverVars, outsideClick>>

\* A file was picked up: it is copied to saveBase + ext and returned, or the
\* copy throws and null is returned (lines 445-460).
OsPickedUp ==
    /\ ck_pc = "os"
    /\ os_picked # <<>>
    /\ \/ /\ \E payload \in Payloads : Persist("os", payload)
          /\ ClickReturn("file")
       \/ /\ ClickReturn("null")
          /\ UNCHANGED ck_saved
    /\ UNCHANGED <<ck_href, ck_osEnabled, ck_dl, ck_dlFailed, ck_pop, ck_viewer, ck_clicks,
                   ck_fetches, ck_tried>>
    /\ pickupKept

ClickInit ==
    /\ ck_pc = "idle"
    /\ ck_href \in {"absolute", "script"}
    /\ ck_osEnabled \in BOOLEAN
    /\ ck_dl = FALSE /\ ck_dlFailed = FALSE /\ ck_pop = "none" /\ ck_viewer = FALSE
    /\ ck_clicks = 0 /\ ck_fetches = {} /\ ck_tried = <<>> /\ ck_saved = {}
    /\ ck_result = <<>>
    /\ os_polls = <<>> /\ os_last = <<>> /\ os_lastSize = -1 /\ os_picked = <<>>

ClickIdle ==
    /\ ck_pc = "off"
    /\ ck_href = "script"
    /\ ck_osEnabled = FALSE
    /\ ck_dl = FALSE /\ ck_dlFailed = FALSE /\ ck_pop = "none" /\ ck_viewer = FALSE
    /\ ck_clicks = 0 /\ ck_fetches = {} /\ ck_tried = <<>> /\ ck_saved = {}
    /\ ck_result = <<>>
    /\ os_polls = <<>> /\ os_last = <<>> /\ os_lastSize = -1 /\ os_picked = <<>>

-----------------------------------------------------------------------------
(* UrlResolver.resolveLinkBased (lib/resolver) *)

\* What the click can have produced when the waits are over.
Signals ==
    [download : BOOLEAN, newPage : BOOLEAN, popup : BOOLEAN, urlChanged : BOOLEAN]

\* Lines 638-665: the if / else if chain over the captured events.
Chosen(sig) ==
    IF sig.download THEN "download"
    ELSE IF sig.newPage THEN "newPage"
    ELSE IF sig.popup THEN "popup"
    ELSE IF sig.urlChanged THEN "url"
    ELSE "none"

\* An href that is already an http URL without 'javascript:' is returned as
\* it is (lines 575-588).
IsDirectHref(href) == href = "absolute"

ResolveDirect ==
    /\ rv_pc = "idle"
    /\ IsDirectHref(rv_href)
    /\ rv_pc' = "returned"
    /\ rv_result' = <<[success |-> TRUE, finalUrl |-> "href", via |-> "direct"]>>
    /\ UNCHANGED <<rv_href, rv_clicks, rv_listening, rv_signals, rv_page>>
    /\ UNCHANGED <<clickVars, pickupVars, outsideClick>>

\* The listeners are set up, the element clicked, and of the download, the new
\* page and the popup captured the first in this order decides the result;
\* only the new-page and popup branches close the page (lines 590-681).
ResolveClick ==
    /\ rv_pc = "idle"
    /\ ~IsDirectHref(rv_href)
    /\ rv_listening' = TRUE
    /\ rv_clicks' = rv_clicks + 1
    /\ \E sig \in Signals :
          /\ rv_signals' = <<sig>>
          /\ rv_page' = (IF ~(sig.newPage \/ sig.popup) THEN "none"
                         ELSE IF Chosen(sig) = "download" THEN "open" ELSE "closed")
          /\ rv_result' = <<[success |-> Chosen(sig) # "none",
                             finalUrl |-> Chosen(sig),
                             via |-> Chosen(sig)]>>
    /\ rv_pc' = "returned"
    /\ UNCHANGED rv_href
    /\ UNCHANGED <<clickVars, pickupVars, outsideClick>>

ResolverInit ==
    /\ rv_pc = "idle"
    /\ rv_href \in {"absolute", "script"}
    /\ rv_clicks = 0 /\ rv_listening = FALSE /\ rv_signals = <<>>
    /\ rv_page = "none" /\ rv_result = <<>>

ResolverIdle ==
    /\ rv_pc = "off"
    /\ rv_href = "script"
    /\ rv_clicks = 0 /\ rv_listening = FALSE /\ rv_signals = <<>>
    /\ rv_page = "none" /\ rv_result = <<>>

\* One call of one of the two routines.
ClickNext ==
    \/ Click \/ DownloadBranch \/ PopupBranch \/ ResponseBranch \/ HrefBranch
    \/ OsSkipped \/ OsPoll \/ OsTimeout \/ OsPickedUp
    \/ ResolveDirect \/ ResolveClick

-----------------------------------------------------------------------------
(* runPipeline (pipeline/run) and BatchCollector.run (batch): the loop over the URLs *)

Urls == {"u1", "u2"}

UrlLists == UNION {[1..n -> Urls] : n \in 1..MaxUrls}

\* What one processUrl call can do: return success with a file count and the
\* missing codes of the case, return a failure, or throw.
JobOutcomes ==
    {[kind |-> "success", fileCount |-> n, missingCodes |-> m] :
        n \in {0, 2}, m \in {<<>>, <<"AP">>, <<"AP", "REG">>}}
    \cup {[kind |-> "failure", fileCount |-> 0, missingCodes |-> <<>>],
          [kind |-> "thrown", fileCount |-> 0, missingCodes |-> <<>>]}

\* for (const code of codes) if (!acc.includes(code)) acc.push(code), and
\* Set.add in insertion order.

RECURSIVE AddMissing(_, _)
AddMissing(acc, codes) ==
    IF codes = <<>> THEN acc
    ELSE AddMissing(IF Head(codes) \in Range(acc) THEN acc ELSE Append(acc, Head(codes)),
                    Tail(codes))

\* The loop index after one URL: the try/catch around processUrl keeps the
\* loop going whatever the case did.
NextUrlIndex_Abort(i, outcome) ==
    IF outcome.kind = "thrown" THEN Len(rn_urls) ELSE i + 1

NextUrlIndex(i, outcome) == i + 1

\* result after a case: the success branch and the two failure branches.
Tally(result, url, outcome) ==
    IF outcome.kind = "success"
    THEN [result EXCEPT !.success = @ + 1,
                        !.totalFiles = IF rn_impl = "pipeline" THEN @ + outcome.fileCount
                                       ELSE @,
                        !.missingCodes = AddMissing(@, outcome.missingCodes)]
    ELSE [result EXCEPT !.failed = @ + 1,
                        !.failedUrls = IF rn_impl = "pipeline" THEN Append(@, url) ELSE @]

\* One pass of the loop: processUrl for the next URL and the tally.
RunCase ==
    /\ ~rn_done
    /\ rn_i < Len(rn_urls)
    /\ \E outcome \in JobOutcomes :
          /\ rn_outcomes' = Append(rn_outcomes, outcome)
          /\ rn_visited' = Append(rn_visited, rn_urls[rn_i + 1])
          /\ rn_result' = Tally(rn_result, rn_urls[rn_i + 1], outcome)
          /\ rn_i' = NextUrlIndex(rn_i, outcome)
    /\ UNCHANGED <<rn_impl, rn_urls, rn_done, outsideRun>>

\* The loop is over: the result is returned (pipeline) or logged as the
\* summary (batch).
RunEnd ==
    /\ ~rn_done
    /\ rn_i >= Len(rn_urls)
    /\ rn_done' = TRUE
    /\ UNCHANGED <<rn_impl, rn_urls, rn_i, rn_outcomes, rn_visited, rn_result, outsideRun>>

EmptyResult == [success |-> 0, failed |-> 0, totalFiles |-> 0, missingCodes |-> <<>>,
                failedUrls |-> <<>>]

RunInit ==
    /\ rn_impl \in {"pipeline", "batch"}
    /\ rn_urls \in UrlLists
    /\ rn_i = 0
    /\ rn_outcomes = <<>>
    /\ rn_visited = <<>>
    /\ rn_result = EmptyResult
    /\ rn_done = FALSE

RunIdle ==
    /\ rn_impl = "off"
    /\ rn_urls = <<>>
    /\ rn_i = 0
    /\ rn_outcomes = <<>>
    /\ rn_visited = <<>>
    /\ rn_result = EmptyResult
    /\ rn_done = FALSE

RunNext == RunCase \/ RunEnd

-----------------------------------------------------------------------------
(* The listeners around the click of a resolution routine: clickResolveAndSaveV2 *)
(* (utils/downloader), UrlResolver.resolveLinkBased (lib/manifest) and      *)
(* TankAuctionVendor.resolveTargets (vendors/tankauction). Time is counted  *)
(* in units of 100 ms.                                                      *)

ListenRoutines == {"clickResolveAndSaveV2", "resolveLinkBased", "resolveTargets"}

\* The events a routine listens for with a promise or a handler of its own.
Listened(routine) ==
    CASE routine = "clickResolveAndSaveV2" -> {"download", "page"}
      [] routine = "resolveLinkBased" -> {"page", "download", "popup"}
      [] routine = "resolveTargets" -> {"popup", "download", "page"}

\* The timeout of waitForEvent, <<>> for a handler set with page.on:
\* 30000 and 12000 ms, hookMs * 2 with hookMs = 600, and 3000 ms.
ListenTimeout(routine, event) ==
    CASE routine = "clickResolveAndSaveV2" ->
            IF event = "download" THEN <<300>> ELSE <<120>>
      [] routine = "resolveLinkBased" ->
            IF event = "popup" THEN <<>> ELSE <<12>>
      [] routine = "resolveTargets" -> <<30>>

\* The timeout of the click: 5000 ms, hookMs, 2000 ms.
ClickTimeout(routine) ==
    CASE routine = "clickResolveAndSaveV2" -> 50
      [] routine = "resolveLinkBased" -> 6
      [] routine = "resolveTargets" -> 20

\* resolveTargets awaits Promise.allSettled of its three waitForEvent promises
\* and only then calls click(); the other two routines start the click while
\* the promises are pending.
AwaitsListeners(routine) == routine = "resolveTargets"

Unregistered(routine) ==
    [e \in Listened(routine) |-> [state |-> "unregistered", deadline |-> <<>>]]

\* A waitForEvent promise rejects when its timeout has elapsed.
Expire(listeners, now) ==
    [e \in DOMAIN listeners |->
        IF /\ listeners[e].state = "waiting"
           /\ listeners[e].deadline # <<>>
           /\ listeners[e].deadline[1] <= now
        THEN [listeners[e] EXCEPT !.state = "timedOut"]
        ELSE listeners[e]]

Pending(listeners) == {e \in DOMAIN listeners : listeners[e].state = "waiting"}

\* An event reaches the listener that is waiting for it, and no other.
Deliver(listeners, fired) ==
    [e \in DOMAIN listeners |->
        IF e \in fired /\ listeners[e].state = "waiting"
        THEN [listeners[e] EXCEPT !.state = "fulfilled"]
        ELSE listeners[e]]

\* waitForEvent / page.on for every event of the routine.
ListenRegister ==
    /\ ls_pc = "start"
    /\ ls_listeners' =
          [e \in Listened(ls_routine) |->
              [state |-> "waiting",
               deadline |-> IF ListenTimeout(ls_routine, e) = <<>> THEN <<>>
                            ELSE <<ls_clock + ListenTimeout(ls_routine, e)[1]>>]]
    /\ ls_pc' = IF AwaitsListeners(ls_routine) THEN "awaiting" ELSE "clicking"
    /\ ls_clickStart' = ls_clock
    /\ UNCHANGED <<ls_routine, ls_clock, ls_atClick, ls_fired, ls_observed, outsideListen>>

\* await Promise.allSettled([...waitForEvent]): time passes while a promise
\* is pending.
ListenAwait ==
    /\ ls_pc = "awaiting"
    /\ Pending(ls_listeners) # {}
    /\ ls_clock' = ls_clock + 1
    /\ ls_listeners' = Expire(ls_listeners, ls_clock + 1)
    /\ UNCHANGED <<ls_routine, ls_pc, ls_clickStart, ls_atClick, ls_fired, ls_observed,
                   outsideListen>>

\* All the promises have settled: the routine goes on to the click.
ListenSettled ==
    /\ ls_pc = "awaiting"
    /\ Pending(ls_listeners) = {}
    /\ ls_pc' = "clicking"
    /\ ls_clickStart' = ls_clock
    /\ UNCHANGED <<ls_routine, ls_clock, ls_listeners, ls_atClick, ls_fired, ls_observed,
                   outsideListen>>

\* click() waits for the element to be actionable, at most its timeout.
ListenTick ==
    /\ ls_pc = "clicking"
    /\ ls_clock - ls_clickStart < ClickTimeout(ls_routine)
    /\ ls_clock' = ls_clock + 1
    /\ ls_listeners' = Expire(ls_listeners, ls_clock + 1)
    /\ UNCHANGED <<ls_routine, ls_pc, ls_clickStart, ls_atClick, ls_fired, ls_observed,
                   outsideListen>>

\* The click is issued; the page answers it at once with any of the events.
ListenClick ==
    /\ ls_pc = "clicking"
    /\ ls_clock - ls_clickStart < ClickTimeout(ls_routine)
    /\ \E fired \in SUBSET Listened(ls_routine) :
          /\ ls_fired' = fired
          /\ ls_listeners' = Deliver(ls_listeners, fired)
    /\ ls_atClick' = [e \in DOMAIN ls_listeners |-> ls_listeners[e].state]
    /\ ls_pc' = "clicked"
    /\ UNCHANGED <<ls_routine, ls_clock, ls_clickStart, ls_observed, outsideListen>>

\* The element never became actionable: click() rejects, nothing was clicked.
ListenClickFails ==
    /\ ls_pc = "clicking"
    /\ ls_clock - ls_clickStart = ClickTimeout(ls_routine)
    /\ ls_pc' = "failed"
    /\ UNCHANGED <<ls_routine, ls_clock, ls_clickStart, ls_listeners, ls_atClick,
                   ls_fired, ls_observed, outsideListen>>

\* The routine reads the settled promises: the events it got.
ListenCollect ==
    /\ ls_pc = "clicked"
    /\ ls_observed' = {e \in DOMAIN ls_listeners : ls_listeners[e].state = "fulfilled"}
    /\ ls_pc' = "done"
    /\ UNCHANGED <<ls_routine, ls_clock, ls_clickStart, ls_listeners, ls_atClick,
                   ls_fired, outsideListen>>

ListenInit ==
    /\ ls_routine \in ListenRoutines
    /\ ls_pc = "start"
    /\ ls_clock = 0
    /\ ls_clickStart = 0
    /\ ls_listeners = Unregistered(ls_routine)
    /\ ls_atClick = [e \in Listened(ls_routine) |-> "unregistered"]
    /\ ls_fired = {}
    /\ ls_observed = {}

ListenIdle ==
    /\ ls_routine = "resolveLinkBased"
    /\ ls_pc = "done"
    /\ ls_clock = 0
    /\ ls_clickStart = 0
    /\ ls_listeners = Unregistered(ls_routine)
    /\ ls_atClick = [e \in Listened(ls_routine) |-> "unregistered"]
    /\ ls_fired = {}
    /\ ls_observed = {}

ListenNext ==
    \/ ListenRegister
    \/ ListenAwait
    \/ ListenSettled
    \/ ListenTick
    \/ ListenClick
    \/ ListenClickFails
    \/ ListenCollect

-----------------------------------------------------------------------------
(* toDirectDownloadFromHref (utils/downloader) *)

MaxParams == 2

\* An href is one of: a URL reference ("plain"), javascript:fileView('...')
\* with the reference as its quoted argument ("fileView"), another
\* javascript: URL ("script"), or a text new URL() rejects ("invalid").
\* A reference is a path, rooted or relative, and a query: the list of the
\* name=value pairs as written.
HrefFiles == {"paFile.php", "paView.php", "view.php"}

HrefPaths ==
    {[rooted |-> TRUE, segs |-> <<"pa", f>>] : f \in HrefFiles}
    \cup {[rooted |-> FALSE, segs |-> <<f>>] : f \in HrefFiles}
    \cup {[rooted |-> TRUE, segs |-> <<"ca", "view.php">>]}

ParamNames == {"tp", "cltrNo", "chkNo"}

RawValues == {"D", "J", "1", "a%20b"}

RECURSIVE SeqsUpTo(_, _)
SeqsUpTo(S, n) ==
    IF n = 0 THEN {<<>>}
    ELSE LET shorter == SeqsUpTo(S, n - 1)
         IN  shorter \cup {Append(q, x) : q \in shorter, x \in S}

Queries == SeqsUpTo([name : ParamNames, value : RawValues], MaxParams)

Hrefs ==
    {[form |-> f, rooted |-> p.rooted, segs |-> p.segs, query |-> q] :
        f \in {"plain", "fileView"}, p \in HrefPaths, q \in Queries}
    \cup {[form |-> "script", rooted |-> FALSE, segs |-> <<"void(0)">>, query |-> q] :
            q \in Queries}
    \cup {[form |-> "invalid", rooted |-> FALSE, segs |-> <<>>, query |-> <<>>]}

BaseDirs == {<<"pa">>, <<"ca">>}

\* URLSearchParams reads a query through the form-urlencoded decoder and
\* URL.toString() writes it through the encoder: %20 and + both read as a
\* space, a space is written +.
Decode(raw) == IF raw \in {"a%20b", "a+b"} THEN "a b" ELSE raw

Encode(value) == IF value = "a b" THEN "a+b" ELSE value

ParseQuery(query) ==
    [i \in 1..Len(query) |-> [name |-> query[i].name, value |-> Decode(query[i].value)]]

SerializeQuery(params) ==
    [i \in 1..Len(params) |-> [name |-> params[i].name, value |-> Encode(params[i].value)]]

HasParam(params, name) == \E i \in 1..Len(params) : params[i].name = name

\* searchParams.set: the first pair of that name takes the value, the other
\* pairs of that name are removed.
SetParam(params, name, value) ==
    LET first == CHOOSE i \in 1..Len(params) :
                    /\ params[i].name = name
                    /\ \A j \in 1..(i - 1) : params[j].name # name
    IN  SubSeq(params, 1, first - 1)
        \o <<[name |-> name, value |-> value]>>
        \o SelectSeq(SubSeq(params, first + 1, Len(params)), LAMBDA p : p.name # name)

\* searchParams.append
AppendParam(params, name, value) == Append(params, [name |-> name, value |-> value])

\* if (u.searchParams.has('tp')) u.searchParams.set('tp', 'D');
\* else u.searchParams.append('tp', 'D');
ForceDownload(query) ==
    LET params == ParseQuery(query)
    IN  SerializeQuery(IF HasParam(params, "tp") THEN SetParam(params, "tp", "D")
                       ELSE AppendParam(params, "tp", "D"))

\* new URL(reference, baseUrl): the path of a relative reference is taken
\* from the directory of the base.
ResolvePath(rooted, segs, baseDir) == IF rooted THEN segs ELSE baseDir \o segs

\* if (!filePath.startsWith('/pa/')) filePath = '/pa/' + filePath
FileViewPath(rooted, segs) ==
    IF rooted /\ Head(segs) = "pa" THEN segs
    ELSE <<"pa">> \o (IF rooted THEN <<"">> ELSE <<>>) \o segs

\* u.pathname.endsWith('/pa/paView.php')
EndsWithPaView(segs) ==
    /\ Len(segs) >= 2
    /\ segs[Len(segs) - 1] = "pa"
    /\ segs[Len(segs)] = "paView.php"

\* The value returned: <<>> for null, <<the URL>> otherwise.
toDirectDownloadFromHref(href, baseDir) ==
    IF href.form = "fileView"
    THEN <<[scheme |-> "https",
            segs |-> FileViewPath(href.rooted, href.segs),
            query |-> ForceDownload(href.query)]>>
    ELSE IF href.form = "invalid"
    THEN <<>>
    ELSE IF href.form = "script"
    THEN <<[scheme |-> "javascript", segs |-> href.segs,
            query |-> ForceDownload(href.query)]>>
    ELSE LET path == ResolvePath(href.rooted, href.segs, baseDir)
         IN  <<[scheme |-> "https",
                segs |-> IF EndsWithPaView(path) THEN <<"pa", "paFile.php">> ELSE path,
                query |-> ForceDownload(href.query)]>>

\* The URL returned, u.toString(), given as the href of another call.
AsHref(url) ==
    [form |-> IF url.scheme = "javascript" THEN "script" ELSE "plain",
     rooted |-> url.scheme # "javascript",
     segs |-> url.segs,
     query |-> url.query]

HrefTransform ==
    /\ hf_pc = "in"
    /\ hf_out' = toDirectDownloadFromHref(hf_href, hf_base)
    /\ hf_pc' = "out"
    /\ UNCHANGED <<hf_href, hf_base, hf_again, outsideHref>>

HrefTransformAgain ==
    /\ hf_pc = "out"
    /\ hf_out # <<>>
    /\ hf_again' = toDirectDownloadFromHref(AsHref(hf_out[1]), hf_base)
    /\ hf_pc' = "again"
    /\ UNCHANGED <<hf_href, hf_base, hf_out, outsideHref>>

HrefInit ==
    /\ hf_pc = "in"
    /\ hf_href \in Hrefs
    /\ hf_base \in BaseDirs
    /\ hf_out = <<>>
    /\ hf_again = <<>>

HrefIdle ==
    /\ hf_pc = "again"
    /\ hf_href = [form |-> "invalid", rooted |-> FALSE, segs |-> <<>>, query |-> <<>>]
    /\ hf_base = <<"pa">>
    /\ hf_out = <<>>
    /\ hf_again = <<>>

HrefNext == HrefTransform \/ HrefTransformAgain

-----------------------------------------------------------------------------
(* Downloader.download calls that share an output directory and a filename   *)
(* (utils/download with findUniqueFilename, writeFile, isValidFile of utils/fs) *)

\* retries = 1, the default of DownloadOptions
StoreRetries == 1

Calls == 1..MaxCalls

\* The names findUniqueFilename can return for one filename: 0 stands for the
\* filename itself, k for `${name}_${k}${ext}`.
StoreNames == 0..(MaxCalls * (StoreRetries + 1))

\* findUniqueFilename: the filename when no file has it, otherwise the first
\* of name_1, name_2, ... no file has.
findUniqueFilename(dir) ==
    CHOOSE k \in StoreNames :
        /\ dir[k] = <<>>
        /\ \A j \in 0..(k - 1) : dir[j] # <<>>

\* isValidFile(filePath, minSize): the file exists and its size is at least minSize
isValidFile(dir, name, minSize) ==
    dir[name] # <<>> /\ dir[name][1].size >= minSize

\* The performDownload calls the RateLimiter has started and not finished.
InFlight == {c \in Calls : st_pc[c] \in {"fetch", "body", "picked", "written"}}

\* download(options): the first pass through the loop hands performDownload
\* to rateLimiter.add
StoreCall(c) ==
    /\ st_pc[c] = "idle"
    /\ st_pc' = [st_pc EXCEPT ![c] = "queued"]
    /\ UNCHANGED <<st_concurrency, st_dir, st_attempt, st_buffer, st_name, st_result,
                   outsideStore>>

\* RateLimiter.process starts the task when fewer than concurrency tasks run.
StoreStart(c) ==
    /\ st_pc[c] = "queued"
    /\ Cardinality(InFlight) < st_concurrency
    /\ st_pc' = [st_pc EXCEPT ![c] = "fetch"]
    /\ UNCHANGED <<st_concurrency, st_dir, st_attempt, st_buffer, st_name, st_result,
                   outsideStore>>

\* The catch of download(): another pass after the back-off while
\* attempt < retries, otherwise the result of failure.
StoreReject(c) ==
    IF st_attempt[c] < StoreRetries
    THEN /\ st_attempt' = [st_attempt EXCEPT ![c] = @ + 1]
         /\ st_pc' = [st_pc EXCEPT ![c] = "queued"]
         /\ st_result' = st_result
    ELSE /\ st_pc' = [st_pc EXCEPT ![c] = "failed"]
         /\ st_result' = [st_result EXCEPT ![c] = <<[success |-> FALSE, name |-> 0]>>]
         /\ st_attempt' = st_attempt

\* performDownload up to the error-page test: the request, response.ok(),
\* response.body() and the test of a short body for error words.
StoreFetch(c) ==
    /\ st_pc[c] = "fetch"
    /\ \E resp \in Responses :
          IF performDownload(resp).written
          THEN /\ st_buffer' = [st_buffer EXCEPT ![c] = resp.size]
               /\ st_pc' = [st_pc EXCEPT ![c] = "body"]
               /\ UNCHANGED <<st_attempt, st_result>>
          ELSE /\ StoreReject(c)
               /\ st_buffer' = st_buffer
    /\ UNCHANGED <<st_concurrency, st_dir, st_name, outsideStore>>

\* const uniqueFilename = await findUniqueFilename(...)
StoreFindName(c) ==
    /\ st_pc[c] = "body"
    /\ st_name' = [st_name EXCEPT ![c] = findUniqueFilename(st_dir)]
    /\ st_pc' = [st_pc EXCEPT ![c] = "picked"]
    /\ UNCHANGED <<st_concurrency, st_dir, st_attempt, st_buffer, st_result,
                   outsideStore>>

\* await writeFile(finalPath, buffer): the file is created or replaced
StoreWrite(c) ==
    /\ st_pc[c] = "picked"
    /\ st_dir' = [st_dir EXCEPT ![st_name[c]] = <<[by |-> c, size |-> st_buffer[c]]>>]
    /\ st_pc' = [st_pc EXCEPT ![c] = "written"]
    /\ UNCHANGED <<st_concurrency, st_attempt, st_buffer, st_name, st_result,
                   outsideStore>>

\* if (!await isValidFile(finalPath, 512)) throw ...; return { success: true, ... }
StoreRecheck(c) ==
    /\ st_pc[c] = "written"
    /\ IF isValidFile(st_dir, st_name[c], MinValidSize)
       THEN /\ st_pc' = [st_pc EXCEPT ![c] = "done"]
            /\ st_result' = [st_result EXCEPT
                                ![c] = <<[success |-> TRUE, name |-> st_name[c]]>>]
            /\ st_attempt' = st_attempt
       ELSE StoreReject(c)
    /\ UNCHANGED <<st_concurrency, st_dir, st_buffer, st_name, outsideStore>>

\* The directory is empty or holds a file of the requested name from before
\* (by = 0); no call has been made.
StoreInit ==
    /\ st_concurrency \in 1..MaxConcurrency
    /\ st_dir \in {[n \in StoreNames |-> <<>>],
                   [n \in StoreNames |->
                       IF n = 0 THEN <<[by |-> 0, size |-> 2000]>> ELSE <<>>]}
    /\ st_pc = [c \in Calls |-> "idle"]
    /\ st_attempt = [c \in Calls |-> 0]
    /\ st_buffer = [c \in Calls |-> 0]
    /\ st_name = [c \in Calls |-> 0]
    /\ st_result = [c \in Calls |-> <<>>]

StoreIdle ==
    /\ st_concurrency = 1
    /\ st_dir = <<>>
    /\ st_pc = <<>>
    /\ st_attempt = <<>>
    /\ st_buffer = <<>>
    /\ st_name = <<>>
    /\ st_result = <<>>

StoreNext ==
    \E c \in Calls :
        \/ StoreCall(c) \/ StoreStart(c) \/ StoreFetch(c) \/ StoreFindName(c)
        \/ StoreWrite(c) \/ StoreRecheck(c)

-----------------------------------------------------------------------------
(* Specifications *)

InitRate == RateInit /\ ManifestIdle /\ PipeIdle /\ BatchIdle /\ DownloadIdle
    /\ ClickIdle /\ ResolverIdle
    /\ RunIdle
    /\ ListenIdle /\ HrefIdle /\ StoreIdle

SpecRate == InitRate /\ [][RateNext]_vars

\* Started tasks terminate, timers and nextTick callbacks fire, time passes,
\* and a waitForCompletion() in progress keeps polling.
RateFairness ==
    /\ WF_vars(TimerFire)
    /\ WF_vars(TaskDone)
    /\ WF_vars(NextTick)
    /\ WF_vars(LiveClockTick)
    /\ WF_vars(WaitPoll)

InitRateLive == RateLiveInit /\ ManifestIdle /\ PipeIdle /\ BatchIdle /\ DownloadIdle
    /\ ClickIdle /\ ResolverIdle
    /\ RunIdle
    /\ ListenIdle /\ HrefIdle /\ StoreIdle

SpecRateLive == InitRateLive /\ [][RateLiveNext]_vars /\ RateFairness

InitManifest == ManifestInit /\ RateIdle /\ PipeIdle /\ BatchIdle /\ DownloadIdle
    /\ ClickIdle /\ ResolverIdle
    /\ RunIdle
    /\ ListenIdle /\ HrefIdle /\ StoreIdle

SpecManifest == InitManifest /\ [][ManifestNext]_vars

InitPipe ==
    /\ PipeInit
    /\ requiredCodes \in PipeRequiredInputs
    /\ ManifestNew
    /\ OldManifestNew
    /\ RateIdle
    /\ BatchIdle
    /\ DownloadIdle
    /\ ClickIdle /\ ResolverIdle
    /\ RunIdle
    /\ ListenIdle /\ HrefIdle /\ StoreIdle

SpecPipe == InitPipe /\ [][PipeNext]_vars

InitBatch == BatchInit /\ RateIdle /\ ManifestIdle /\ PipeIdle /\ DownloadIdle
    /\ ClickIdle /\ ResolverIdle
    /\ RunIdle
    /\ ListenIdle /\ HrefIdle /\ StoreIdle

SpecBatch == InitBatch /\ [][BatchNext]_vars

InitDownload == DownloadInit /\ RateIdle /\ ManifestIdle /\ PipeIdle /\ BatchIdle
    /\ ClickIdle /\ ResolverIdle
    /\ RunIdle
    /\ ListenIdle /\ HrefIdle /\ StoreIdle

SpecDownload == InitDownload /\ [][DownloadNext]_vars

InitClick ==
    /\ \/ ClickInit /\ ResolverIdle
       \/ ClickIdle /\ ResolverInit
    /\ RateIdle /\ ManifestIdle /\ PipeIdle /\ BatchIdle /\ DownloadIdle
    /\ RunIdle
    /\ ListenIdle /\ HrefIdle /\ StoreIdle

SpecClick == InitClick /\ [][ClickNext]_vars

InitRun ==
    RunInit /\ RateIdle /\ ManifestIdle /\ PipeIdle /\ BatchIdle /\ DownloadIdle
    /\ ClickIdle /\ ResolverIdle
    /\ ListenIdle /\ HrefIdle /\ StoreIdle

SpecRun == InitRun /\ [][RunNext]_vars

InitListen ==
    ListenInit /\ RateIdle /\ ManifestIdle /\ PipeIdle /\ BatchIdle /\ DownloadIdle
    /\ ClickIdle /\ ResolverIdle /\ RunIdle /\ HrefIdle /\ StoreIdle

SpecListen == InitListen /\ [][ListenNext]_vars

InitHref ==
    HrefInit /\ RateIdle /\ ManifestIdle /\ PipeIdle /\ BatchIdle /\ DownloadIdle
    /\ ClickIdle /\ ResolverIdle /\ RunIdle /\ ListenIdle /\ StoreIdle

SpecHref == InitHref /\ [][HrefNext]_vars

InitStore ==
    StoreInit /\ RateIdle /\ ManifestIdle /\ PipeIdle /\ BatchIdle /\ DownloadIdle
    /\ ClickIdle /\ ResolverIdle /\ RunIdle /\ ListenIdle /\ HrefIdle

SpecStore == InitStore /\ [][StoreNext]_vars

-----------------------------------------------------------------------------
\* C1: at every moment the number of tasks started and not yet finished is at
\* most the configured concurrency, and the counter `running` is that number.
C1_ConcurrencyBound ==
    /\ Cardinality(rl_active) <= rl_concurrency
    /\ rl_running = Cardinality(rl_active)

\* C1 witness: the limiter is saturated while another task waits in the queue.
C1_Witness ==
    /\ rl_concurrency = 2
    /\ Cardinality(rl_active) = 2
    /\ rl_queue # <<>>

-----------------------------------------------------------------------------
(* Claims about the Manifest *)

\* The positions of the successful file entries of a list of attachments.
FoundAt(atts) == {i \in 1..Len(atts) : atts[i].kind = "file" /\ atts[i].success}

StrictlyAscending(codes) ==
    \A i, j \in 1..Len(codes) : i < j => CodeRank(codes[i]) < CodeRank(codes[j])

RECURSIVE SizeAt(_, _)
SizeAt(atts, I) ==
    IF I = {} THEN 0
    ELSE LET i == CHOOSE k \in I : TRUE IN atts[i].size + SizeAt(atts, I \ {i})

\* C3: after any non-empty sequence of add() calls, getMissing() is the required
\* categories minus the categories of the entries with success = true and
\* kind = 'file', in ascending order without duplicates; failed entries and
\* link entries remove nothing.
C3_MissingIsRequiredMinusFound ==
    Len(mf_attachments) >= 1 =>
        /\ Range(getMissing) =
              Range(requiredCodes) \ {mf_attachments[i].code : i \in FoundAt(mf_attachments)}
        /\ StrictlyAscending(getMissing)

\* C3 witness: a successful link of a required category and a failed file leave
\* their categories missing, a successful file removes its own, and the
\* required codes were given out of order.
C3_Witness ==
    /\ requiredCodes = <<"REG", "BLD", "AP">>
    /\ \E i \in 1..Len(mf_attachments) :
          mf_attachments[i].kind = "link" /\ mf_attachments[i].success
              /\ mf_attachments[i].code = "AP"
    /\ \E i \in 1..Len(mf_attachments) :
          mf_attachments[i].kind = "file" /\ mf_attachments[i].success
              /\ mf_attachments[i].code = "REG"
    /\ getMissing = <<"AP", "BLD">>

\* C7: after any sequence of add() calls the statistics are those recomputed
\* from the whole list: ok, fail and skipped count the successful files, the
\* failed files and the links and sum to the number of entries, totalSize sums
\* the sizes of the successful files, codes are their distinct categories in
\* ascending order; in the earlier Manifest total = success + failed = number
\* of add() calls.
C7_StatsRecomputed ==
    LET found == FoundAt(mf_attachments)
        files == {i \in 1..Len(mf_attachments) : mf_attachments[i].kind = "file"}
        links == {i \in 1..Len(mf_attachments) : mf_attachments[i].kind = "link"}
        oldOk == {i \in 1..Len(om_attachments) : om_attachments[i].success}
    IN /\ mf_stats.ok = Cardinality(found)
       /\ mf_stats.fail = Cardinality(files \ found)
       /\ mf_stats.skipped = Cardinality(links)
       /\ mf_stats.ok + mf_stats.fail + mf_stats.skipped = Len(mf_attachments)
       /\ mf_stats.totalSize = SizeAt(mf_attachments, found)
       /\ Range(mf_stats.codes) = {mf_attachments[i].code : i \in found}
       /\ StrictlyAscending(mf_stats.codes)
       /\ om_stats.total = Len(om_attachments)
       /\ om_stats.success = Cardinality(oldOk)
       /\ om_stats.total = om_stats.success + om_stats.failed
       /\ om_stats.totalSize = SizeAt(om_attachments, oldOk)

\* C7 witness: a failed file of size 1 and a successful file of size 2 have been
\* added, and the earlier Manifest holds one successful entry of size 2.
C7_Witness ==
    /\ mf_stats.ok = 1 /\ mf_stats.fail = 1 /\ mf_stats.skipped = 0
    /\ mf_stats.totalSize = 2
    /\ om_stats.success = 1 /\ om_stats.total = 1 /\ om_stats.totalSize = 2

-----------------------------------------------------------------------------
(* Claims about the processing of one case *)

CaseSucceeded == pp_result # <<>> /\ pp_result[1].success

\* C4: the manifest of a case in which no required category was resolved
\* reports every required category as missing: getMissing() is the full
\* required set, hasRequiredCodes() is false and the saved file's missing
\* field lists them, also when no entry was ever added.
C4_NoneResolvedAllMissing ==
    (/\ CaseSucceeded
     /\ \A i \in FoundAt(mf_attachments) :
           mf_attachments[i].code \notin Range(requiredCodes))
    => /\ Range(getMissing) = Range(requiredCodes)
       /\ ~hasRequiredCodes
       /\ pp_saved # <<>>
       /\ Range(pp_saved[1].missing) = Range(requiredCodes)

IsSpecial(cand) == cand.kind = "file" /\ cand.code \in {"NOI", "IMG", "RTR"}

GeneralFoundAt(atts) ==
    {i \in FoundAt(atts) : atts[i].code \notin {"NOI", "IMG", "RTR"}}

\* C9: within one case no two successful file entries of general file
\* candidates share a path, so that no acquisition writes to the path an earlier
\* successful entry recorded, whichever strategy produced each file.
C9_PathsNeverReused ==
    \A i, j \in GeneralFoundAt(mf_attachments) :
        i # j => mf_attachments[i].path # mf_attachments[j].path

-----------------------------------------------------------------------------
(* Claims about ManifestManager and the batch collector *)

\* The codes of the successful entries of a list of manifest entries.
SuccessCodes(entries) ==
    {entries[i].code : i \in {k \in 1..Len(entries) : entries[k].success}}

\* C5: the missing list of mergeManifests(prior, fresh) is the required codes
\* minus the codes of the successful entries of either manifest; a category the
\* prior run found is not missing after the merge, and when the fresh run found
\* no category the prior run had not found, merged.missing = prior.missing.
C5_MergedMissing ==
    bt_merge # <<>> =>
        LET prior == bt_merge[1].existing
            fresh == bt_merge[1].new
            merged == bt_merge[1].merged
            foundPrior == SuccessCodes(prior.processedFiles)
            foundFresh == SuccessCodes(fresh.processedFiles)
        IN /\ Range(merged.missing) =
                 Range(ManagerRequiredCodes) \ (foundPrior \cup foundFresh)
           /\ Len(merged.missing) = Cardinality(Range(merged.missing))
           /\ \A code \in Range(ManagerRequiredCodes) :
                 code \in foundPrior => code \notin Range(merged.missing)
           /\ foundFresh \subseteq foundPrior => merged.missing = prior.missing

\* C5 witness: the prior run found AP, the fresh run failed to download its AP
\* candidate and so lists AP as missing, and the merged manifest does not.
C5_Witness ==
    /\ bt_merge # <<>>
    /\ "AP" \notin Range(bt_merge[1].existing.missing)
    /\ "AP" \in Range(bt_merge[1].new.missing)
    /\ \E i \in 1..Len(bt_merge[1].new.processedFiles) :
          /\ bt_merge[1].new.processedFiles[i].code = "AP"
          /\ ~bt_merge[1].new.processedFiles[i].success
    /\ bt_merge[1].merged.missing = <<"RS", "REG", "BLD", "ZON">>

\* C6: mergeManifests(prior, fresh) returns as processedFiles the entries of
\* prior followed by those of fresh, in order, none removed, deduplicated or
\* altered, and as totalCandidates the sum of both totals.
C6_MergedFilesConcatenated ==
    bt_merge # <<>> =>
        LET prior == bt_merge[1].existing
            fresh == bt_merge[1].new
            merged == bt_merge[1].merged
            n == Len(prior.processedFiles)
        IN /\ Len(merged.processedFiles) = n + Len(fresh.processedFiles)
           /\ \A i \in 1..n : merged.processedFiles[i] = prior.processedFiles[i]
           /\ \A i \in 1..Len(fresh.processedFiles) :
                 merged.processedFiles[n + i] = fresh.processedFiles[i]
           /\ merged.totalCandidates = prior.totalCandidates + fresh.totalCandidates

\* C6 witness: a merge of two manifests of two entries each, an entry of the
\* fresh one being equal to an entry of the prior one, gives four entries.
C6_Witness ==
    /\ bt_merge # <<>>
    /\ Len(bt_merge[1].existing.processedFiles) = 2
    /\ Len(bt_merge[1].new.processedFiles) = 2
    /\ \E i, j \in 1..2 :
          bt_merge[1].existing.processedFiles[i] = bt_merge[1].new.processedFiles[j]
    /\ Len(bt_merge[1].merged.processedFiles) = 4

\* C10: once loadExistingManifest has loaded a prior manifest, no filename that
\* generateUniqueFilename returns in the run is the filename of a successful
\* entry of that manifest, and no two filenames it returns are equal.
C10_NoPriorFilenameReturned ==
    bt_existing # <<>> =>
        /\ \A i \in 1..Len(bt_generated) :
              bt_generated[i] \notin SuccessfulFilenames(bt_existing[1])
        /\ \A i, j \in 1..Len(bt_generated) :
              i # j => bt_generated[i] # bt_generated[j]

\* C10 witness: the prior manifest records AP_a.pdf and AP_a_1.pdf as successes
\* of a dry run (no file on disk), and the same candidates are given AP_a_2.pdf
\* and AP_a_1_1.pdf in the next run.
C10_Witness ==
    /\ bt_existing # <<>>
    /\ bt_disk = {}
    /\ SuccessfulFilenames(bt_existing[1]) =
          {FileName(<<"AP", "a">>, "pdf"), FileName(<<"AP", "a", "1">>, "pdf")}
    /\ bt_generated =
          <<FileName(<<"AP", "a", "2">>, "pdf"), FileName(<<"AP", "a", "1", "1">>, "pdf")>>

\* C11: between two clearFileCache() calls every filename that
\* generateUniqueFilename returns is neither in the registry nor in the output
\* directory nor returned before, and is then in the registry; the call ends
\* with the base name or with the first counter whose name is free, after no
\* more iterations than there are names taken.
C11_ReturnedNameIsFresh ==
    [][Len(bt_generated') = Len(bt_generated) + 1 =>
        LET f == bt_generated'[Len(bt_generated')]
            candidate == bt_cands[Len(bt_downloads) + 1]
            taken == bt_existingFiles \cup bt_disk
            base == FileName(BaseStem(candidate), candidate.ext)
            numbered(k) == FileName(BaseStem(candidate) \o <<Digits[k]>>, candidate.ext)
        IN /\ f \notin bt_existingFiles
           /\ f \notin bt_disk
           /\ f \notin Range(bt_generated)
           /\ f \in bt_existingFiles'
           /\ \/ f = base
              \/ \E k \in 1..Len(Digits) :
                    /\ f = numbered(k)
                    /\ base \in taken
                    /\ \A j \in 1..(k - 1) : numbered(j) \in taken
                    /\ k <= Cardinality(taken)]_vars

\* C11 witness: AP_a.pdf is in the output directory but in no manifest, and two
\* identical candidates (AP, a, pdf) of one run were given AP_a_1.pdf and
\* AP_a_2.pdf.
C11_Witness ==
    /\ bt_existing = <<>>
    /\ FileName(<<"AP", "a">>, "pdf") \in bt_disk
    /\ bt_generated =
          <<FileName(<<"AP", "a", "1">>, "pdf"), FileName(<<"AP", "a", "2">>, "pdf")>>

-----------------------------------------------------------------------------
(* Claims about the two download loops *)

Returned == dl_pc = "done" /\ dl_result # <<>>

\* C12: Downloader.download makes exactly retries + 1 attempts when every
\* attempt fails and then stops; an attempt that succeeds is the last one made
\* and its result is the one returned.
C12_AttemptsOfDownload ==
    dl_impl = "Downloader" =>
        /\ dl_tried <= dl_retries + 1
        /\ dl_pc = "loop" => dl_tried = Len(dl_errors) /\ dl_tried <= dl_retries
        /\ (Returned /\ ~dl_result[1].success) =>
              dl_tried = dl_retries + 1 /\ Len(dl_errors) = dl_retries + 1
        /\ (Returned /\ dl_result[1].success) =>
              /\ dl_tried = Len(dl_errors) + 1
              /\ \E resp \in dl_written : dl_result[1].size = resp.size

\* C12 witness: with retries = 2 three attempts failed and the call returned a
\* failure.
C12_Witness ==
    /\ dl_impl = "Downloader" /\ dl_retries = 2
    /\ Returned /\ ~dl_result[1].success
    /\ dl_tried = 3

\* C13: FileDownloader.downloadFile with maxRetries = N, every attempt failing,
\* makes N + 1 attempts before it returns the failure.
C13_AttemptsOfDownloadFile ==
    (/\ dl_impl = "FileDownloader"
     /\ Returned /\ ~dl_result[1].success
     /\ dl_tried >= 1)
    => dl_tried = dl_retries + 1

\* C14: the delays Downloader.download waits start at the base delay, each next
\* one is the double of the one before or the cap, none decreases or exceeds
\* the cap, one is waited after every failed attempt but the final one.
C14_BackoffDelays ==
    dl_impl = "Downloader" =>
        /\ dl_delays # <<>> => dl_delays[1] = 1000
        /\ \A i \in 1..Len(dl_delays) : dl_delays[i] <= 10000
        /\ \A i \in 1..(Len(dl_delays) - 1) :
              /\ dl_delays[i] <= dl_delays[i + 1]
              /\ dl_delays[i + 1] = (IF 2 * dl_delays[i] <= 10000
                                   THEN 2 * dl_delays[i] ELSE 10000)
        /\ Len(dl_delays) <= dl_retries
        /\ Len(dl_delays) = (IF Len(dl_errors) = dl_retries + 1
                             THEN dl_retries ELSE Len(dl_errors))

\* C14 witness: six attempts failed with retries = 5; the five delays reach the
\* cap and none follows the final attempt.
C14_Witness ==
    /\ dl_impl = "Downloader" /\ dl_retries = 5
    /\ dl_tried = 6
    /\ dl_delays = <<1000, 2000, 4000, 8000, 10000>>

\* C15: a call whose attempts all failed returns (it does not throw) a result
\* with success = false, size 0 and the message of the last failed attempt.
C15_FailureResult ==
    /\ dl_pc = "done" => dl_result # <<>>
    /\ (Returned /\ ~dl_result[1].success /\ dl_tried >= 1) =>
          /\ dl_result[1].size = 0
          /\ Len(dl_errors) = dl_tried
          /\ dl_result[1].error = dl_errors[Len(dl_errors)]

\* C15 witness: a timeout followed by an HTTP error status, after which
\* downloadFile returned the failure.
C15_Witness ==
    /\ dl_impl = "FileDownloader"
    /\ Returned /\ ~dl_result[1].success
    /\ dl_errors = <<"Timeout exceeded", "HTTP 500">>

-----------------------------------------------------------------------------
(* Claims about the resolution routines *)

\* C16: no payload whose leading bytes hold an HTML document marker is written
\* to a file, by whichever strategy the bytes were obtained.
C16_HtmlNeverPersisted ==
    \A saved \in ck_saved :
        saved.how \in {"popup-response", "response", "direct"} => ~saved.payload.html

\* C17: when a resolution routine has returned, the popup or new page its click
\* opened is closed.
C17_PopupsClosedOnReturn ==
    /\ ck_pc = "returned" => ck_pop # "open"
    /\ rv_pc = "returned" => rv_page # "open"

-----------------------------------------------------------------------------
(* Claims about the candidate loop of the pipeline *)

\* The candidate a step of the loop has just processed.
Processed == pp_cands'[Len(pp_cands')]

\* The entry a step has just appended to the manifest.
Added == mf_attachments'[Len(mf_attachments')]

C19_LinkCandidateFrame ==
    [][(Len(pp_cands') = Len(pp_cands) + 1 /\ Processed.kind = "link")
       => /\ pp_writes' = pp_writes
          /\ Len(mf_attachments') = Len(mf_attachments) + 1
          /\ SubSeq(mf_attachments', 1, Len(mf_attachments)) = mf_attachments
          /\ Added.kind = "link" /\ Added.success
          /\ Added.url = Processed.href
          /\ mf_missing' = mf_missing
          /\ mf_stats'.ok = mf_stats.ok
          /\ mf_stats'.fail = mf_stats.fail
          /\ mf_stats'.totalSize = mf_stats.totalSize
          /\ mf_stats'.codes = mf_stats.codes
          /\ mf_stats'.skipped = mf_stats.skipped + 1]_vars

\* The same without the condition on missing, which the code does satisfy.
LinkCandidateFrameButMissing ==
    [][(Len(pp_cands') = Len(pp_cands) + 1 /\ Processed.kind = "link")
       => /\ pp_writes' = pp_writes
          /\ Len(mf_attachments') = Len(mf_attachments) + 1
          /\ SubSeq(mf_attachments', 1, Len(mf_attachments)) = mf_attachments
          /\ Added.kind = "link" /\ Added.success
          /\ Added.url = Processed.href
          /\ (mf_attachments # <<>> => mf_missing' = mf_missing)
          /\ mf_stats'.ok = mf_stats.ok
          /\ mf_stats'.fail = mf_stats.fail
          /\ mf_stats'.totalSize = mf_stats.totalSize
          /\ mf_stats'.codes = mf_stats.codes
          /\ mf_stats'.skipped = mf_stats.skipped + 1]_vars

\* The entries candidate i added, as positions of the attachments list.
EntriesOfCandidate(i) ==
    (SeqSum(SubSeq(pp_produced, 1, i - 1)) + 1) .. SeqSum(SubSeq(pp_produced, 1, i))

IsFailedOrLinkOnly(a) == (a.kind = "file" /\ ~a.success) \/ a.kind = "link"

\* C20: a candidate whose processing failed or threw leaves the loop running:
\* it is recorded by a failed or a link-only entry, the candidates after it are
\* processed and recorded in order, and when the case is over the manifest
\* with all these entries has been saved and the result is a success.
C20_FailureContained ==
    /\ Len(pp_failures) = Len(pp_cands)
    /\ Len(pp_produced) = Len(pp_cands)
    /\ \A i \in 1..Len(pp_cands) :
          pp_failures[i] =>
             /\ pp_pc \in {"loop", "done"}
             /\ \E k \in EntriesOfCandidate(i) : IsFailedOrLinkOnly(mf_attachments[k])
             /\ \A j \in (i + 1)..Len(pp_cands) : EntriesOfCandidate(j) # {}
             /\ pp_pc = "done" =>
                   /\ CaseSucceeded
                   /\ pp_saved # <<>>
                   /\ pp_saved[1].attachments = mf_attachments
                   /\ Len(mf_attachments) >= Len(pp_cands)

C20_Witness ==
    /\ pp_pc = "done" /\ CaseSucceeded
    /\ Len(pp_cands) = 2
    /\ pp_failures = <<TRUE, FALSE>>
    /\ pp_cands[1].code = "NOI" /\ pp_cands[2].code = "AP"
    /\ ~mf_attachments[Len(mf_attachments) - 1].success
    /\ mf_attachments[Len(mf_attachments)].kind = "file"
    /\ mf_attachments[Len(mf_attachments)].success
    /\ pp_saved[1].attachments = mf_attachments

-----------------------------------------------------------------------------
(* Claims about the run over the URL list *)

\* The URLs among the first n whose case failed or threw, in list order.
RECURSIVE FailedAmong(_)
FailedAmong(n) ==
    IF n = 0 THEN <<>>
    ELSE IF rn_outcomes[n].kind = "success" THEN FailedAmong(n - 1)
    ELSE Append(FailedAmong(n - 1), rn_urls[n])

SucceededAt == {k \in 1..Len(rn_outcomes) : rn_outcomes[k].kind = "success"}

\* C21: whatever the cases do, the URLs are gone through once each in list
\* order; success + failed is the number of URLs gone through, which is the
\* number of URLs when the run ends; the failed URLs are recorded once per
\* failing case, and missingCodes is the union without duplicates of the missing
\* codes of the successful cases.
C21_RunTally ==
    /\ rn_visited = SubSeq(rn_urls, 1, Len(rn_visited))
    /\ Len(rn_outcomes) = Len(rn_visited)
    /\ rn_result.success + rn_result.failed = Len(rn_visited)
    /\ rn_result.success = Cardinality(SucceededAt)
    /\ rn_done => rn_visited = rn_urls
    /\ rn_impl = "pipeline" => rn_result.failedUrls = FailedAmong(Len(rn_outcomes))
    /\ Range(rn_result.missingCodes) =
          UNION {Range(rn_outcomes[k].missingCodes) : k \in SucceededAt}
    /\ Cardinality(Range(rn_result.missingCodes)) = Len(rn_result.missingCodes)

C21_Witness ==
    /\ rn_done
    /\ rn_impl = "pipeline"
    /\ rn_urls = <<"u1", "u2", "u1">>
    /\ rn_outcomes[1].kind = "thrown"
    /\ rn_outcomes[2].kind = "success" /\ rn_outcomes[2].missingCodes = <<"AP">>
    /\ rn_outcomes[3].kind = "success" /\ rn_outcomes[3].missingCodes = <<"AP", "REG">>
    /\ rn_result.success = 2 /\ rn_result.failed = 1
    /\ rn_result.failedUrls = <<"u1">>
    /\ rn_result.missingCodes = <<"AP", "REG">>

\* What was done on the page for the candidate a step has just processed.
Clicked == pp_clicks'[Len(pp_clicks')]

\* C22: when the click on an AP file candidate yields a download event that is
\* saved, the step appends one entry of kind 'file' with code AP, success =
\* true, the size of the saved file and the extension of the download, and
\* AP is found and not in missing after the step.
C22_DownloadEventRecorded ==
    [][(/\ ~pp_dryRun
        /\ Len(pp_cands') = Len(pp_cands) + 1
        /\ Processed.kind = "file"
        /\ Processed.code = "AP"
        /\ Clicked.how = "download")
       => /\ Len(mf_attachments') = Len(mf_attachments) + 1
          /\ SubSeq(mf_attachments', 1, Len(mf_attachments)) = mf_attachments
          /\ Added.kind = "file" /\ Added.code = "AP" /\ Added.success
          /\ Added.size = Clicked.size
          /\ Added.ext = Clicked.ext
          /\ pp_writes' = Append(pp_writes, Added.path)
          /\ "AP" \in Range(mf_stats'.codes)
          /\ "AP" \notin Range(mf_missing')]_vars

C22_Witness ==
    /\ pp_pc = "done" /\ CaseSucceeded
    /\ "AP" \in Range(requiredCodes)
    /\ Len(pp_cands) = 1 /\ pp_cands[1].code = "AP"
    /\ pp_clicks[1].how = "download" /\ pp_clicks[1].size = 3
    /\ Len(mf_attachments) = 1
    /\ mf_attachments[1].kind = "file" /\ mf_attachments[1].success
    /\ mf_attachments[1].size = 3 /\ mf_attachments[1].ext = "pdf"
    /\ "AP" \notin Range(mf_missing)
    /\ "AP" \notin Range(pp_result[1].missingCodes)

\* C23: in a dry run no candidate is clicked or captured and no document is
\* written into the case directory.
C23_DryRunAcquiresNothing ==
    pp_dryRun =>
        /\ pp_writes = <<>>
        /\ \A i \in 1..Len(pp_clicks) : pp_clicks[i].how = "no click"

-----------------------------------------------------------------------------
(* Claims about the start of the first tasks of the RateLimiter *)

\* Two tasks were added at the same instant to a limiter that had started
\* nothing, with room for two tasks at a time, and both have started.
FirstTwoAddedTogether ==
    /\ rl_concurrency >= 2
    /\ Len(rl_addTimes) >= 2
    /\ rl_addTimes[1] = rl_addTimes[2]
    /\ Len(rl_started) >= 2

-----------------------------------------------------------------------------
(* Claims about the strategies of clickResolveAndSaveV2 and of the resolver *)

\* C25: every direct HTTP fetch a fallback strategy issues (original href,
\* popup viewer URL, src found in the viewer, PDF extraction from the HTML
\* viewer) goes through the RateLimiter.
C25_FetchesRateLimited ==
    \A f \in ck_fetches : f.via = "rateLimiter.add"

\* C27: a captured download that can be saved decides the result, whatever
\* else the click produced: the file returned is the download's and nothing
\* obtained from the popup is saved; in the resolver the download goes before
\* the new page or popup, and these before a change of the page's URL.
C27_DownloadHasPriority ==
    /\ (ck_pc = "returned" /\ ck_dl /\ ~ck_dlFailed) =>
          /\ ck_result = <<"file">>
          /\ \A saved \in ck_saved : saved.how = "download"
    /\ (rv_pc = "returned" /\ rv_signals # <<>>) =>
          LET sig == rv_signals[1]
              via == rv_result[1].via
          IN /\ sig.download => via = "download"
             /\ (~sig.download /\ (sig.newPage \/ sig.popup)) => via \in {"newPage", "popup"}
             /\ (~sig.download /\ ~sig.newPage /\ ~sig.popup /\ sig.urlChanged)
                   => via = "url"

\* C28: for a candidate whose href is already an absolute http URL, resolution
\* clicks nothing, registers no listener and returns success with the href as
\* resolved location.
C28_AbsoluteHrefShortCircuits ==
    /\ (rv_pc = "returned" /\ rv_href = "absolute") =>
          /\ rv_clicks = 0
          /\ ~rv_listening
          /\ rv_result[1].success
          /\ rv_result[1].finalUrl = "href"
    /\ (ck_pc = "returned" /\ ck_href = "absolute") => ck_clicks = 0

\* The polls that found a matching file, as positions of os_polls.
FoundPolls == {k \in 1..Len(os_polls) : os_polls[k].kind = "file"}

\* C30: the OS fallback polls only when it is enabled and every other strategy
\* has failed; waitAndPickupFromOS returns a file only if the last two passes
\* of the loop, one right after the other, found that file as newest match
\* with the same size above zero, and returns null only at the timeout.
C30_PickupNeedsTwoSuccessivePolls ==
    /\ os_polls # <<>> =>
          /\ ck_osEnabled
          /\ ck_clicks = 1
          /\ ck_dl => ck_dlFailed
          /\ ck_pop # "open"
          /\ "href" \in Range(ck_tried)
          /\ \A saved \in ck_saved : saved.how = "os"
    /\ (os_picked # <<>> /\ os_picked # <<"null">>) =>
          LET n == Len(os_polls)
          IN /\ n >= 2
             /\ os_polls[n].kind = "file" /\ os_polls[n - 1].kind = "file"
             /\ os_polls[n].file = os_picked[1] /\ os_polls[n - 1].file = os_picked[1]
             /\ os_polls[n].size = os_polls[n - 1].size
             /\ os_polls[n].size > 0
    /\ os_picked = <<"null">> => Len(os_polls) = MaxPolls

\* The same with the comparison made against the latest earlier pass that found
\* a file, which is what the loop does.
PickupComparesWithLastFound ==
    /\ os_polls # <<>> =>
          /\ ck_osEnabled
          /\ ck_clicks = 1
          /\ ck_dl => ck_dlFailed
          /\ ck_pop # "open"
          /\ "href" \in Range(ck_tried)
          /\ \A saved \in ck_saved : saved.how = "os"
    /\ (os_picked # <<>> /\ os_picked # <<"null">>) =>
          LET n == Len(os_polls)
              earlier == {k \in FoundPolls : k < n}
          IN /\ earlier # {}
             /\ os_polls[n].kind = "file"
             /\ LET m == CHOOSE k \in earlier : \A j \in earlier : j <= k
                IN /\ os_polls[n].file = os_picked[1] /\ os_polls[m].file = os_picked[1]
                   /\ os_polls[n].size = os_polls[m].size
                   /\ os_polls[n].size > 0
    /\ os_picked = <<"null">> => Len(os_polls) = MaxPolls

\* C26: in every resolution routine, when the click on the candidate is
\* issued the listeners for the download event and for the popup / new page
\* event are registered and have not timed out, so that an event the click
\* fires at once is observed and not lost.
C26_ListenersArmedAtClick ==
    ls_pc \in {"clicked", "done"} =>
        /\ \A e \in Listened(ls_routine) : ls_atClick[e] = "waiting"
        /\ ls_pc = "done" => ls_fired \subseteq ls_observed

\* The same holds for the two routines that start the click while their
\* waitForEvent promises are pending.
ListenersArmedUnlessAwaited ==
    (~AwaitsListeners(ls_routine) /\ ls_pc \in {"clicked", "done"}) =>
        /\ \A e \in Listened(ls_routine) : ls_atClick[e] = "waiting"
        /\ ls_pc = "done" => ls_fired \subseteq ls_observed

OtherParams(query) == SelectSeq(ParseQuery(query), LAMBDA p : p.name # "tp")

TpValues(query) ==
    LET tps == SelectSeq(ParseQuery(query), LAMBDA p : p.name = "tp")
    IN  [i \in 1..Len(tps) |-> tps[i].value]

\* toDirectDownloadFromHref forces tp to D, keeps every other parameter with
\* its name, value and place, and returns null for a text that is no URL.
DirectHrefForcesTp ==
    /\ (hf_pc = "out" /\ hf_href.form = "invalid") => hf_out = <<>>
    /\ (hf_pc \in {"out", "again"} /\ hf_out # <<>>) =>
          /\ TpValues(hf_out[1].query) = <<"D">>
          /\ OtherParams(hf_out[1].query) = OtherParams(hf_href.query)

\* C29: toDirectDownloadFromHref(href, base) returns a URL whose tp parameter
\* is D and in which every other parameter of the input appears with the same
\* name, value and relative order; it returns null on unparsable input; and
\* applied to its own output it returns the same URL.
C29_DirectHrefIdempotent ==
    /\ (hf_pc = "out" /\ hf_href.form = "invalid") => hf_out = <<>>
    /\ (hf_pc \in {"out", "again"} /\ hf_out # <<>>) =>
          /\ TpValues(hf_out[1].query) = <<"D">>
          /\ OtherParams(hf_out[1].query) = OtherParams(hf_href.query)
    /\ hf_pc = "again" => hf_again = hf_out

\* Outside the javascript:fileView branch the second application changes
\* nothing.
DirectHrefIdempotentOnUrls ==
    (hf_pc = "again" /\ hf_href.form # "fileView") => hf_again = hf_out


\* C31: Downloader.download never reports success for a body shorter than the
\* minimum size (512 bytes): the attempt that got such a body fails, and it is
\* followed by the wait and the retry that follow any other failed attempt.
C31_SmallBodyRejected ==
    dl_impl = "Downloader" =>
        /\ (dl_result # <<>> /\ dl_result[1].success) => dl_result[1].size >= MinValidSize
        /\ \A i \in 1..Len(dl_bodies) :
              dl_bodies[i] < MinValidSize =>
                 /\ i <= Len(dl_errors)
                 /\ IF i - 1 < dl_retries
                    THEN /\ i <= Len(dl_delays)
                         /\ dl_delays[i] = BackoffDelay(i - 1)
                         /\ dl_pc = "loop" \/ Len(dl_bodies) > i
                    ELSE /\ dl_pc = "done"
                         /\ ~dl_result[1].success

C31_Witness ==
    /\ dl_impl = "Downloader"
    /\ dl_pc = "done"
    /\ Len(dl_bodies) = 2
    /\ dl_bodies[1] = 300
    /\ dl_errors = <<"Downloaded file failed integrity check">>
    /\ dl_delays = <<BackoffDelay(0)>>
    /\ dl_result[1].success


\* C32: a RateLimiter starts tasks in the order of their add() calls: of two
\* tasks the one added first never starts after the other, whatever the
\* interleaving of additions, pacing timers and completions. Tasks are
\* numbered in the order of their add() calls.
C32_StartsInAddOrder ==
    /\ \A i, j \in 1..Len(rl_started) : i < j => rl_started[i][1] < rl_started[j][1]
    /\ \A i \in 1..Len(rl_started) : \A k \in 1..Len(rl_queue) :
          rl_started[i][1] < rl_queue[k]

\* C32 witness: three tasks were added while the limiter was saturated or
\* pacing, a timer fired and a task completed, and all three have started.
C32_Witness ==
    /\ Len(rl_started) = 3
    /\ rl_started[2][2] > rl_addTimes[2]
    /\ rl_started[3][2] > rl_addTimes[3]
    /\ rl_active # {1, 2, 3}


StartedTasks == {rl_started[i][1] : i \in 1..Len(rl_started)}

\* The add() promise of a task has settled: the task was started and is no
\* longer running.
SettledTasks == StartedTasks \ rl_active

WakeUpPending == rl_timers # <<>> \/ rl_ticks > 0

\* C36: every task added to a RateLimiter is eventually started and its add()
\* promise eventually settles, provided started tasks terminate and timers
\* fire; whenever the queue is non-empty and no task is running a wake-up (a
\* pacing timer or a scheduled process call) is pending; and
\* waitForCompletion() returns only when the queue is empty and no task runs.
C36_NoTaskStranded ==
    /\ \A t \in 1..MaxLiveTasks : (rl_added >= t) ~> (t \in SettledTasks)
    /\ []((rl_queue # <<>> /\ rl_running = 0) => WakeUpPending)
    /\ [][(rl_wait \in {"none", "polling"}
               /\ rl_wait' \in {"returned", "returnedAfterPolling"})
              => (rl_queue = <<>> /\ rl_running = 0)]_vars

\* C36 witness: all the tasks were added, some of them while the limiter was
\* saturated or pacing, all have settled, and a waitForCompletion() that had
\* to poll has returned.
C36_Witness ==
    /\ rl_added = MaxLiveTasks
    /\ SettledTasks = 1..MaxLiveTasks
    /\ rl_started[MaxLiveTasks][2] > rl_addTimes[MaxLiveTasks]
    /\ rl_wait = "returnedAfterPolling"


\* C34: whenever the processing of a case returns success, the MANIFEST.json
\* of the case has been written with the manifest of that processing before
\* the return, that is before the next case begins.
C34_ManifestWrittenOnSuccess ==
    (pp_pc = "done" /\ pp_result[1].success) => pp_saved = <<ManifestData>>

\* C34 witness: a case on which an earlier MANIFEST.json lay returned success
\* after processing a candidate.
C34_Witness ==
    /\ pp_pc = "done"
    /\ pp_result[1].success
    /\ pp_prior # <<>>
    /\ Len(mf_attachments) >= 1

\* The same in BatchCollector.processUrl: a success is returned with the
\* final manifest on disk.
BatchManifestWrittenOnSuccess ==
    (bt_pc = "start" /\ bt_result # <<>> /\ bt_result[1].success) =>
        /\ bt_file # <<>>
        /\ bt_file[1].missing = bt_result[1].missingCodes

IsPrefix(s, t) == Len(s) <= Len(t) /\ SubSeq(t, 1, Len(s)) = s

\* C35: when a case whose output directory holds a persisted manifest is
\* processed again, the manifest persisted at the end holds the entries of
\* the prior manifest followed by those of the new run, and a category found
\* earlier is not reported missing.
C35_PriorEntriesKept ==
    (pp_pc = "done" /\ pp_result[1].success /\ pp_prior # <<>>) =>
        /\ IsPrefix(pp_prior[1].attachments, pp_saved[1].attachments)
        /\ \A i \in 1..Len(pp_prior[1].attachments) :
              (IsFile(pp_prior[1].attachments[i]) /\ pp_prior[1].attachments[i].success)
                 => pp_prior[1].attachments[i].code \notin Range(pp_saved[1].missing)


SuccessfulAt(entries) == {i \in 1..Len(entries) : entries[i].success}

RECURSIVE SizeOver(_, _)
SizeOver(entries, at) ==
    IF at = {} THEN 0
    ELSE LET i == CHOOSE k \in at : TRUE
         IN  entries[i].size + SizeOver(entries, at \ {i})

SummaryCountsEntries(manifest) ==
    LET entries == manifest.processedFiles
        ok == SuccessfulAt(entries)
    IN /\ manifest.summary.successCount = Cardinality(ok)
       /\ manifest.summary.failCount = Len(entries) - Cardinality(ok)
       /\ manifest.summary.totalSize = SizeOver(entries, ok)

\* C39: in every manifest produced by createManifest or mergeManifests,
\* summary.successCount is the number of entries with success = true,
\* summary.failCount the number of entries with success = false and
\* summary.totalSize the sum of the sizes of the successful entries, also when
\* some candidates carry no category code.
C39_SummaryCountsEntries ==
    /\ bt_file # <<>> => SummaryCountsEntries(bt_file[1])
    /\ bt_merge # <<>> =>
          /\ SummaryCountsEntries(bt_merge[1].new)
          /\ SummaryCountsEntries(bt_merge[1].merged)

\* With a category code on every candidate the summary does count the entries.
SummaryCountsCodedEntries ==
    (bt_file # <<>>
        /\ \A i \in 1..Len(bt_file[1].processedFiles) :
              bt_file[1].processedFiles[i].code # "")
      => SummaryCountsEntries(bt_file[1])


C40_PriorEntriesStayOnDisk ==
    bt_existing # <<>> =>
        /\ bt_file # <<>>
        /\ IsPrefix(bt_existing[1].processedFiles, bt_file[1].processedFiles)


-----------------------------------------------------------------------------
(* Claims about download calls that share an output directory *)

\* The files of the directory the call c wrote.
WrittenBy(c) == {n \in StoreNames : st_dir[n] # <<>> /\ st_dir[n][1].by = c}

\* C37: a rejected attempt of Downloader.download leaves no file in the
\* output directory: after download() returned a failure the directory holds
\* no file written by that call, and a call that succeeds after a rejected
\* attempt, alone and with the requested name free at its start, stores the
\* file under the requested filename.
C37_RejectedAttemptLeavesNoFile ==
    \A c \in Calls :
        /\ st_pc[c] = "failed" => WrittenBy(c) = {}
        /\ ( /\ st_pc[c] = "done"
             /\ \A d \in Calls \ {c} : st_pc[d] = "idle"
             /\ st_dir[0][1].by # 0 )
           => st_result[c][1].name = 0

\* C38: two Downloader.download calls in flight at the same time with the
\* same output directory and filename never write to the same path: two
\* successful calls return distinct paths, and no write replaces a file the
\* directory already holds.
C38_ConcurrentCallsKeepPathsApart ==
    /\ [](\A c, d \in Calls :
            (c # d /\ st_pc[c] = "done" /\ st_pc[d] = "done")
                => st_result[c][1].name # st_result[d][1].name)
    /\ [][\A n \in StoreNames : st_dir[n] # <<>> => st_dir'[n] = st_dir[n]]_vars

\* With concurrency 1 the calls run one after the other and two successful
\* calls get distinct paths.
SerialCallsKeepPathsApart ==
    st_concurrency = 1 =>
        \A c, d \in Calls :
            (c # d /\ st_pc[c] = "done" /\ st_pc[d] = "done")
                => st_result[c][1].name # st_result[d][1].name

\* The shape of the state of the calls, and the bound of the RateLimiter on
\* the calls in flight.
StoreTypeOK ==
    /\ st_pc \in [Calls -> {"idle", "queued", "fetch", "body", "picked", "written",
                            "done", "failed"}]
    /\ st_attempt \in [Calls -> 0..StoreRetries]
    /\ st_name \in [Calls -> StoreNames]
    /\ Cardinality(InFlight) <= st_concurrency

====
